---------------------------- MODULE Spec2Model ----------------------------
(***************************************************************************)
(* A model of the move generator and make/unmake core of the chess engine: *)
(* the precomputed attack tables (move_init.rs), the table getters         *)
(* (move_gen.rs), the castling-rights mask (castling_rights.rs), the side  *)
(* to move (color.rs), and Position with generate_moves, make_move,        *)
(* undo_move and is_square_attacked (position.rs).                         *)
(*                                                                         *)
(* A Bitboard is modelled as the set of the indices of its set bits, a     *)
(* subset of 0..63; bit i is square i, square 0 is a8 and square 63 is h1. *)
(* The files bitboard.rs, square.rs, rank.rs, piece.rs and bit_move.rs are *)
(* not part of the sources at hand: their operations are modelled from the *)
(* specification's data model.                                             *)
(***************************************************************************)
EXTENDS Integers, Sequences, FiniteSets, TLC

VARIABLES
    pos,      \* the Position the caller owns
    hist,     \* the caller's stack of made moves: the move, the saved rights, the position before
    last,     \* the last operation on pos: its name, its move, its result, the position before
    pc,       \* "ready", or "rejected" right after a make_move that returned false
    stack,    \* perft driver: the frames of the depth-first walk
    nodes,    \* perft driver: nodes[d] counts the positions reached at depth d
    tables,   \* init: the entries of the static attack tables that belong to one square
    calls     \* init: the calls of init() that have returned

vars == <<pos, hist, last, pc, stack, nodes, tables, calls>>

-----------------------------------------------------------------------------
(* Square, File, Rank *)

ALL_SQUARES == [i \in 1..64 |-> i - 1]

SquareSet == 0..63

\* Square::None, the sentinel after the 64 squares
NoSquare == 64

file(sq) == sq % 8

\* the rank as printed: squares 0..7 are rank 8, squares 56..63 are rank 1
rank(sq) == 8 - (sq \div 8)

above(sq) == sq - 8

below(sq) == sq + 8

-----------------------------------------------------------------------------
(* Bitboard *)

EMPTY == {}

to_bb(sq) == {sq}

shift_upwards(bb, n) == {s - n : s \in {t \in bb : t - n >= 0}}

shift_downwards(bb, n) == {s + n : s \in {t \in bb : t + n <= 63}}

set_sq(bb, sq) == bb \cup {sq}

pop_sq(bb, sq) == bb \ {sq}

is_set_sq(bb, sq) == sq \in bb

count_bits(bb) == Cardinality(bb)

\* the squares of bb in the order repeated pop_lsb yields them
pop_lsb_order(bb) == SelectSeq(ALL_SQUARES, LAMBDA s : s \in bb)

\* to_sq of a bitboard: the index of its lowest set bit, Square::None when empty
to_sq(bb) == IF bb = {} THEN NoSquare ELSE CHOOSE s \in bb : \A t \in bb : s <= t

RANK_8 == 0..7

RANK_1 == 56..63

FILE_A == {s \in SquareSet : s % 8 = 0}

FILE_H == {s \in SquareSet : s % 8 = 7}

W_KING_SIDE_MASK == {61, 62}

W_QUEEN_SIDE_MASK == {57, 58, 59}

B_KING_SIDE_MASK == {5, 6}

B_QUEEN_SIDE_MASK == {1, 2, 3}

-----------------------------------------------------------------------------
(* Color (color.rs) *)

WHITE == 1

BLACK == 3

\* data ^= 0b10 on the two-bit values 1 and 3
switch(c) == (c + 2) % 4

opposite(c) == IF c = WHITE THEN BLACK ELSE IF c = BLACK THEN WHITE ELSE 0

-----------------------------------------------------------------------------
(* PieceType *)

WHITE_PIECES == <<"WP", "WN", "WB", "WR", "WQ", "WK">>

BLACK_PIECES == <<"BP", "BN", "BB", "BR", "BQ", "BK">>

ALL_PIECES == {"WP", "WN", "WB", "WR", "WQ", "WK", "BP", "BN", "BB", "BR", "BQ", "BK"}

NoPiece == "None"

color(piece) == IF piece \in {"WP", "WN", "WB", "WR", "WQ", "WK"} THEN WHITE ELSE BLACK

-----------------------------------------------------------------------------
(* Attack-table initialization (move_init.rs) *)

generate_pawn_quiet_mask(c, square) ==
    LET square_bb == to_bb(square)
    IN  IF c = WHITE
        THEN shift_upwards(square_bb, 8)
             \cup (IF rank(square) = 2 THEN shift_upwards(square_bb, 16) ELSE EMPTY)
        ELSE shift_downwards(square_bb, 8)
             \cup (IF rank(square) = 7 THEN shift_downwards(square_bb, 16) ELSE EMPTY)

\* a slip: the two file tests are left out
generate_pawn_capture_mask_unguarded(c, square) ==
    LET square_bb == to_bb(square)
    IN  IF c = WHITE
        THEN shift_upwards(square_bb, 9) \cup shift_upwards(square_bb, 7)
        ELSE shift_downwards(square_bb, 7) \cup shift_downwards(square_bb, 9)

generate_pawn_capture_mask(c, square) ==
    LET square_bb == to_bb(square)
        notA == file(square) # 0
        notH == file(square) # 7
    IN  IF c = WHITE
        THEN (IF notA THEN shift_upwards(square_bb, 9) ELSE EMPTY)
             \cup (IF notH THEN shift_upwards(square_bb, 7) ELSE EMPTY)
        ELSE (IF notA THEN shift_downwards(square_bb, 7) ELSE EMPTY)
             \cup (IF notH THEN shift_downwards(square_bb, 9) ELSE EMPTY)

generate_knight_mask(square) ==
    LET square_bb == to_bb(square)
        f == file(square)
    IN  (IF f # 0
         THEN shift_upwards(square_bb, 17) \cup shift_downwards(square_bb, 15)
              \cup (IF f # 1
                    THEN shift_upwards(square_bb, 10) \cup shift_downwards(square_bb, 6)
                    ELSE EMPTY)
         ELSE EMPTY)
        \cup
        (IF f # 7
         THEN shift_upwards(square_bb, 15) \cup shift_downwards(square_bb, 17)
              \cup (IF f # 6
                    THEN shift_upwards(square_bb, 6) \cup shift_downwards(square_bb, 10)
                    ELSE EMPTY)
         ELSE EMPTY)

generate_king_mask(square) ==
    LET square_bb == to_bb(square)
        f == file(square)
    IN  shift_upwards(square_bb, 8) \cup shift_downwards(square_bb, 8)
        \cup (IF f # 0
              THEN shift_upwards(square_bb, 1) \cup shift_upwards(square_bb, 9)
                   \cup shift_downwards(square_bb, 7)
              ELSE EMPTY)
        \cup (IF f # 7
              THEN shift_upwards(square_bb, 7) \cup shift_downwards(square_bb, 1)
                   \cup shift_downwards(square_bb, 9)
              ELSE EMPTY)

\* shift by a signed amount: negative is shift_upwards, positive is shift_downwards
shift(bb, d) == IF d < 0 THEN shift_upwards(bb, -d) ELSE shift_downwards(bb, d)

\* a slip: the square the walk stops on is taken into the mask as well
RECURSIVE mask_ray_through_stop(_, _, _, _)
mask_ray_through_stop(seeker, d, stop, bb_mask) ==
    IF seeker \cap stop = {}
    THEN mask_ray_through_stop(shift(seeker, d), d, stop, bb_mask \cup seeker)
    ELSE bb_mask \cup seeker

\* One ray loop of generate_bishop_mask / generate_rook_mask:
\*   while (seeker & stop).is_empty() { bb_mask |= seeker; seeker = seeker.shift(d); }
RECURSIVE mask_ray(_, _, _, _)
mask_ray(seeker, d, stop, bb_mask) ==
    IF seeker \cap stop = {}
    THEN mask_ray(shift(seeker, d), d, stop, bb_mask \cup seeker)
    ELSE bb_mask

\* a slip: the walk does not test the rank or file it should stop on
RECURSIVE mask_ray_walk_unstopped(_, _, _, _)
mask_ray_walk_unstopped(seeker, d, stop, steps) ==
    IF seeker = EMPTY
    THEN [steps |-> steps, lost |-> TRUE]
    ELSE mask_ray_walk_unstopped(shift(seeker, d), d, stop, steps + 1)

\* The same loop, counted: the passes of the body, and whether the seeker was shifted
\* off the board (it is empty, and the loop condition holds from then on)
RECURSIVE mask_ray_walk(_, _, _, _)
mask_ray_walk(seeker, d, stop, steps) ==
    IF seeker = EMPTY
    THEN [steps |-> steps, lost |-> TRUE]
    ELSE IF seeker \cap stop = {}
         THEN mask_ray_walk(shift(seeker, d), d, stop, steps + 1)
         ELSE [steps |-> steps, lost |-> FALSE]

\* the four walks of generate_bishop_mask
bishop_mask_walks(square) ==
    { mask_ray_walk(to_bb(square), -9, RANK_8 \cup FILE_A, 0),
      mask_ray_walk(to_bb(square), -7, RANK_8 \cup FILE_H, 0),
      mask_ray_walk(to_bb(square), 7, RANK_1 \cup FILE_A, 0),
      mask_ray_walk(to_bb(square), 9, RANK_1 \cup FILE_H, 0) }

\* the four walks of generate_rook_mask
rook_mask_walks(square) ==
    { mask_ray_walk(to_bb(square), -8, RANK_8, 0),
      mask_ray_walk(to_bb(square), 8, RANK_1, 0),
      mask_ray_walk(to_bb(square), -1, FILE_A, 0),
      mask_ray_walk(to_bb(square), 1, FILE_H, 0) }

generate_bishop_mask(square) ==
    LET square_bb == to_bb(square)
        m1 == mask_ray(square_bb, -9, RANK_8 \cup FILE_A, EMPTY)
        m2 == mask_ray(square_bb, -7, RANK_8 \cup FILE_H, m1)
        m3 == mask_ray(square_bb, 7, RANK_1 \cup FILE_A, m2)
        m4 == mask_ray(square_bb, 9, RANK_1 \cup FILE_H, m3)
    IN  pop_sq(m4, square)

generate_rook_mask(square) ==
    LET square_bb == to_bb(square)
        m1 == mask_ray(square_bb, -8, RANK_8, EMPTY)
        m2 == mask_ray(square_bb, 8, RANK_1, m1)
        m3 == mask_ray(square_bb, -1, FILE_A, m2)
        m4 == mask_ray(square_bb, 1, FILE_H, m3)
    IN  pop_sq(m4, square)

\* One ray loop of generate_*_moves_on_the_fly:
\*   while (seeker & stop).is_empty() && (seeker & blockers).is_empty()
\*       { seeker = seeker.shift(d); bb_mask |= seeker; }
RECURSIVE moves_ray(_, _, _, _, _)
moves_ray(seeker, d, stop, blockers, bb_mask) ==
    IF seeker \cap stop = {} /\ seeker \cap blockers = {}
    THEN moves_ray(shift(seeker, d), d, stop, blockers, bb_mask \cup shift(seeker, d))
    ELSE bb_mask

\* The same loop, counted: the passes of the body, and whether the seeker was shifted
\* off the board
RECURSIVE moves_ray_walk(_, _, _, _, _)
moves_ray_walk(seeker, d, stop, blockers, steps) ==
    IF seeker = EMPTY
    THEN [steps |-> steps, lost |-> TRUE]
    ELSE IF seeker \cap stop = {} /\ seeker \cap blockers = {}
         THEN moves_ray_walk(shift(seeker, d), d, stop, blockers, steps + 1)
         ELSE [steps |-> steps, lost |-> FALSE]

\* the four walks of generate_bishop_moves_on_the_fly
bishop_moves_walks(square, blockers) ==
    { moves_ray_walk(to_bb(square), -9, RANK_8 \cup FILE_A, blockers, 0),
      moves_ray_walk(to_bb(square), -7, RANK_8 \cup FILE_H, blockers, 0),
      moves_ray_walk(to_bb(square), 7, RANK_1 \cup FILE_A, blockers, 0),
      moves_ray_walk(to_bb(square), 9, RANK_1 \cup FILE_H, blockers, 0) }

\* the four walks of generate_rook_moves_on_the_fly
rook_moves_walks(square, blockers) ==
    { moves_ray_walk(to_bb(square), -8, RANK_8, blockers, 0),
      moves_ray_walk(to_bb(square), 8, RANK_1, blockers, 0),
      moves_ray_walk(to_bb(square), -1, FILE_A, blockers, 0),
      moves_ray_walk(to_bb(square), 1, FILE_H, blockers, 0) }

generate_bishop_moves_on_the_fly(square, blockers) ==
    LET square_bb == to_bb(square)
        m1 == moves_ray(square_bb, -9, RANK_8 \cup FILE_A, blockers, EMPTY)
        m2 == moves_ray(square_bb, -7, RANK_8 \cup FILE_H, blockers, m1)
        m3 == moves_ray(square_bb, 7, RANK_1 \cup FILE_A, blockers, m2)
    IN  moves_ray(square_bb, 9, RANK_1 \cup FILE_H, blockers, m3)

generate_rook_moves_on_the_fly(square, blockers) ==
    LET square_bb == to_bb(square)
        m1 == moves_ray(square_bb, -8, RANK_8, blockers, EMPTY)
        m2 == moves_ray(square_bb, 8, RANK_1, blockers, m1)
        m3 == moves_ray(square_bb, -1, FILE_A, blockers, m2)
    IN  moves_ray(square_bb, 1, FILE_H, blockers, m3)

\* The tables init_masks fills, one entry per colour and square.
PAWN_QUIET_MASKS ==
    [c \in {WHITE, BLACK} |-> [s \in SquareSet |-> generate_pawn_quiet_mask(c, s)]]

PAWN_CAPTURE_MASKS ==
    [c \in {WHITE, BLACK} |-> [s \in SquareSet |-> generate_pawn_capture_mask(c, s)]]

KNIGHT_MASKS == [s \in SquareSet |-> generate_knight_mask(s)]

KING_MASKS == [s \in SquareSet |-> generate_king_mask(s)]

BISHOP_MASKS == [s \in SquareSet |-> generate_bishop_mask(s)]

ROOK_MASKS == [s \in SquareSet |-> generate_rook_mask(s)]

-----------------------------------------------------------------------------
(* Table getters (move_gen.rs) *)

get_pawn_quiet_mask(c, square) == PAWN_QUIET_MASKS[c][square]

\* a slip: the table of the other colour is read
get_pawn_capture_mask_of_other_color(c, square) == PAWN_CAPTURE_MASKS[opposite(c)][square]

get_pawn_capture_mask(c, square) == PAWN_CAPTURE_MASKS[c][square]

get_knight_mask(square) == KNIGHT_MASKS[square]

get_king_mask(square) == KING_MASKS[square]

\* BISHOP_MOVE_CONFIGURATIONS[square] holds, at the magic index of each subset of
\* BISHOP_MASKS[square], the on-the-fly moves for that subset; the lookup masks
\* the occupancy and reads the entry at its magic index.
get_bishop_mask(square, occupancy) ==
    generate_bishop_moves_on_the_fly(square, occupancy \cap BISHOP_MASKS[square])

get_rook_mask(square, occupancy) ==
    generate_rook_moves_on_the_fly(square, occupancy \cap ROOK_MASKS[square])

get_queen_mask(square, occupancy) ==
    get_bishop_mask(square, occupancy) \cup get_rook_mask(square, occupancy)

-----------------------------------------------------------------------------
(* Magic bitboards (move_init.rs, move_gen.rs). A 64-bit magic is written   *)
(* as its four 16-bit groups of hexadecimal digits, most significant first; *)
(* the product is computed on bytes, least significant first, modulo 2^64.  *)

\* square a8 has index 0 and owns element 1 of each array
BISHOP_RELEVANT_BITS ==
    <<  6,  5,  5,  5,  5,  5,  5,  6,
        5,  5,  5,  5,  5,  5,  5,  5,
        5,  5,  7,  7,  7,  7,  5,  5,
        5,  5,  7,  9,  9,  7,  5,  5,
        5,  5,  7,  9,  9,  7,  5,  5,
        5,  5,  7,  7,  7,  7,  5,  5,
        5,  5,  5,  5,  5,  5,  5,  5,
        6,  5,  5,  5,  5,  5,  5,  6 >>

ROOK_RELEVANT_BITS ==
    << 12, 11, 11, 11, 11, 11, 11, 12,
       11, 10, 10, 10, 10, 10, 10, 11,
       11, 10, 10, 10, 10, 10, 10, 11,
       11, 10, 10, 10, 10, 10, 10, 11,
       11, 10, 10, 10, 10, 10, 10, 11,
       11, 10, 10, 10, 10, 10, 10, 11,
       11, 10, 10, 10, 10, 10, 10, 11,
       12, 11, 11, 11, 11, 11, 11, 12 >>

BISHOP_MAGIC_BITBOARDS ==
    << << \h0040, \h0408, \h4440, \h4084 >>,  << \h0020, \h0420, \h8a00, \h4208 >>,
       << \h0010, \h1900, \h4108, \h0202 >>,  << \h0108, \h0608, \h4504, \h2010 >>,
       << \h0581, \h1041, \h8080, \h0210 >>,  << \h2112, \h0804, \h4620, \h0010 >>,
       << \h1080, \h8208, \h2006, \h0210 >>,  << \h03c0, \h8084, \h1022, \h0200 >>,
       << \h0004, \h0504, \h0444, \h0404 >>,  << \h0000, \h0210, \h0142, \h0088 >>,
       << \h24d0, \h0808, \h0108, \h2102 >>,  << \h0001, \h020a, \h0a02, \h0400 >>,
       << \h0000, \h0403, \h0820, \h0402 >>,  << \h0004, \h0110, \h0210, \h0800 >>,
       << \h0401, \h4841, \h0410, \h4005 >>,  << \h0801, \h0104, \h0202, \h0200 >>,
       << \h0040, \h0210, \hc388, \h0100 >>,  << \h0404, \h0220, \h2410, \h8200 >>,
       << \h0810, \h0182, \h0020, \h4102 >>,  << \h0004, \h0028, \h01a0, \h2003 >>,
       << \h0085, \h0408, \h2008, \h0400 >>,  << \h8101, \h02c8, \h0888, \h0400 >>,
       << \h000e, \h9004, \h1088, \h4800 >>,  << \h8002, \h0204, \h8084, \h0102 >>,
       << \h0220, \h2008, \h6509, \h0201 >>,  << \h2010, \h100a, \h0202, \h1202 >>,
       << \h0152, \h0484, \h0802, \h2401 >>,  << \h0020, \h0800, \h0208, \h1110 >>,
       << \h4001, \h0010, \h2100, \h4000 >>,  << \h8000, \h4040, \h0a01, \h1002 >>,
       << \h00e4, \h0040, \h8101, \h1002 >>,  << \h001c, \h0040, \h0101, \h2080 >>,
       << \h8004, \h2009, \h62a0, \h0220 >>,  << \h8422, \h1002, \h0850, \h0202 >>,
       << \h2000, \h4022, \h0030, \h0c08 >>,  << \h8646, \h0200, \h8008, \h0080 >>,
       << \h8002, \h0a02, \h0010, \h0808 >>,  << \h2010, \h0048, \h8011, \h1000 >>,
       << \h6230, \h00a0, \h8001, \h1400 >>,  << \h4200, \h8c03, \h4020, \h9202 >>,
       << \h0209, \h1882, \h4000, \h1000 >>,  << \h4004, \h08a8, \h8400, \h1800 >>,
       << \h0011, \h0400, \ha608, \h0400 >>,  << \h1840, \h060a, \h4402, \h0800 >>,
       << \h0090, \h0801, \h0400, \h0041 >>,  << \h0201, \h0110, \h0080, \h8101 >>,
       << \h1a22, \h0808, \h0504, \hf080 >>,  << \h8012, \h0206, \h0021, \h1212 >>,
       << \h0500, \h8610, \h1124, \h0000 >>,  << \h0180, \h8061, \h0820, \h0800 >>,
       << \h4000, \h020e, \h0104, \h0044 >>,  << \h3000, \h0026, \h1044, \h000a >>,
       << \h0802, \h2411, \h0202, \h0002 >>,  << \h0020, \h9060, \h6121, \h0001 >>,
       << \h5a84, \h8410, \h0401, \h0310 >>,  << \h0004, \h0108, \h0101, \h1c04 >>,
       << \h000a, \h0101, \h0950, \h2200 >>,  << \h0000, \h004a, \h0201, \h2000 >>,
       << \h5002, \h0101, \h0098, \hb028 >>,  << \h8040, \h0028, \h1104, \h0900 >>,
       << \h0028, \h0000, \h1002, \h0204 >>,  << \h0600, \h0020, \h202d, \h0240 >>,
       << \h8918, \h8448, \h4208, \h2200 >>,  << \h4010, \h0110, \h2902, \h0020 >> >>

ROOK_MAGIC_BITBOARDS ==
    << << \h8a80, \h1040, \h0080, \h0020 >>,  << \h0140, \h0020, \h0010, \h0040 >>,
       << \h0280, \h1880, \ha001, \h7001 >>,  << \h0100, \h0810, \h0100, \h0420 >>,
       << \h0200, \h0200, \h1008, \h0420 >>,  << \h0300, \h1c00, \h0201, \h0008 >>,
       << \h8480, \h0080, \h0200, \h0100 >>,  << \h2080, \h0880, \h0440, \h2900 >>,
       << \h0000, \h8000, \h9820, \h4000 >>,  << \h2024, \h4010, \h0020, \h0040 >>,
       << \h0100, \h8020, \h0080, \h1000 >>,  << \h0120, \h8008, \h0080, \h1000 >>,
       << \h0208, \h8080, \h8800, \h0400 >>,  << \h0002, \h8022, \h0080, \h0400 >>,
       << \h2200, \h8001, \h0002, \h0080 >>,  << \h0801, \h0000, \h6082, \h1100 >>,
       << \h0080, \h0440, \h0642, \h2000 >>,  << \h0100, \h8080, \h2000, \h4000 >>,
       << \h1210, \h8a00, \h1020, \h4200 >>,  << \h0140, \h8480, \h1000, \h0802 >>,
       << \h0481, \h8280, \h1400, \h2800 >>,  << \h8094, \h0040, \h0200, \h4100 >>,
       << \h4010, \h0400, \h1001, \h0802 >>,  << \h0000, \h0200, \h0880, \h6104 >>,
       << \h0100, \h4000, \h8020, \h8000 >>,  << \h2040, \h0021, \h2008, \h1000 >>,
       << \h0021, \h2006, \h8010, \h0081 >>,  << \h0020, \h1000, \h8008, \h0080 >>,
       << \h0002, \h000a, \h0020, \h0410 >>,  << \h0000, \h0200, \h8080, \h0400 >>,
       << \h0080, \h0884, \h0010, \h0102 >>,  << \h0080, \h0046, \h0004, \h2881 >>,
       << \h4040, \h0080, \h4080, \h0020 >>,  << \h0440, \h0030, \h0020, \h0801 >>,
       << \h0004, \h2000, \h1100, \h4500 >>,  << \h0188, \h0200, \h1010, \h0100 >>,
       << \h0014, \h8004, \h0180, \h2800 >>,  << \h2080, \h0400, \h8080, \h0200 >>,
       << \h0124, \h0802, \h0400, \h1001 >>,  << \h0200, \h0465, \h0200, \h0484 >>,
       << \h0480, \h4000, \h8008, \h8020 >>,  << \h1000, \h4220, \h1003, \h4000 >>,
       << \h0030, \h2001, \h0011, \h0040 >>,  << \h0000, \h1000, \h2101, \h0009 >>,
       << \h2002, \h0801, \h0011, \h0004 >>,  << \h0202, \h0080, \h0400, \h8002 >>,
       << \h0020, \h0200, \h0401, \h0100 >>,  << \h2048, \h4400, \h4082, \h0001 >>,
       << \h0101, \h0022, \h0040, \h8200 >>,  << \h0040, \h8020, \h0040, \h1080 >>,
       << \h4008, \h1420, \h0441, \h0100 >>,  << \h0206, \h0820, \hc012, \h0200 >>,
       << \h0001, \h0010, \h0408, \h0100 >>,  << \h020c, \h0200, \h8004, \h0080 >>,
       << \h2935, \h6108, \h3002, \h2400 >>,  << \h0044, \h4400, \h4100, \h9200 >>,
       << \h0280, \h0010, \h4080, \h2101 >>,  << \h2100, \h1900, \h4000, \h2085 >>,
       << \h80c0, \h0841, \h0010, \h2001 >>,  << \h4024, \h0810, \h0100, \h0421 >>,
       << \h0002, \h0030, \ha024, \h4872 >>,  << \h0012, \h0010, \h0841, \h4402 >>,
       << \h0200, \h6104, \h900a, \h0804 >>,  << \h0001, \h0040, \h8100, \h2402 >> >>

\* the eight bytes of a magic, least significant first
magic_bytes(m) ==
    << m[4] % 256, m[4] \div 256, m[3] % 256, m[3] \div 256,
       m[2] % 256, m[2] \div 256, m[1] % 256, m[1] \div 256 >>

\* the eight bytes of the 64-bit word of a bitboard (bit i is square i)
bitboard_bytes(bb) ==
    [k \in 1..8 |->
        LET b == 8 * (k - 1)
        IN  (IF b \in bb THEN 1 ELSE 0) + (IF b + 1 \in bb THEN 2 ELSE 0)
            + (IF b + 2 \in bb THEN 4 ELSE 0) + (IF b + 3 \in bb THEN 8 ELSE 0)
            + (IF b + 4 \in bb THEN 16 ELSE 0) + (IF b + 5 \in bb THEN 32 ELSE 0)
            + (IF b + 6 \in bb THEN 64 ELSE 0) + (IF b + 7 \in bb THEN 128 ELSE 0)]

\* u64::wrapping_mul: the low 64 bits of the product, on bytes
wrapping_mul(a, b) ==
    LET c1 == a[1] * b[1]
        c2 == a[1] * b[2] + a[2] * b[1] + (c1 \div 256)
        c3 == a[1] * b[3] + a[2] * b[2] + a[3] * b[1] + (c2 \div 256)
        c4 == a[1] * b[4] + a[2] * b[3] + a[3] * b[2] + a[4] * b[1] + (c3 \div 256)
        c5 == a[1] * b[5] + a[2] * b[4] + a[3] * b[3] + a[4] * b[2] + a[5] * b[1]
                + (c4 \div 256)
        c6 == a[1] * b[6] + a[2] * b[5] + a[3] * b[4] + a[4] * b[3] + a[5] * b[2]
                + a[6] * b[1] + (c5 \div 256)
        c7 == a[1] * b[7] + a[2] * b[6] + a[3] * b[5] + a[4] * b[4] + a[5] * b[3]
                + a[6] * b[2] + a[7] * b[1] + (c6 \div 256)
        c8 == a[1] * b[8] + a[2] * b[7] + a[3] * b[6] + a[4] * b[5] + a[5] * b[4]
                + a[6] * b[3] + a[7] * b[2] + a[8] * b[1] + (c7 \div 256)
    IN  << c1 % 256, c2 % 256, c3 % 256, c4 % 256, c5 % 256, c6 % 256, c7 % 256, c8 % 256 >>

\* word >> (64 - num_bits), for num_bits up to 16
shift_right_to(word, num_bits) ==
    (word[8] * 256 + word[7]) \div (2 ^ (16 - num_bits))

\* occupancy.wrapping_mul(magic) >> (64 - num_bits)
magic_index(occupancy, magic, num_bits) ==
    shift_right_to(wrapping_mul(bitboard_bytes(occupancy), magic_bytes(magic)), num_bits)

\* move_init.rs, lines 481-491: the subset of mask selected by the bits of the index
generate_occupancy_permutation(occupancy_index, num_bits, mask) ==
    LET squares == pop_lsb_order(mask)
    IN  {squares[i + 1] : i \in {j \in 0..(num_bits - 1) :
                                    (occupancy_index \div (2 ^ j)) % 2 = 1}}

\* init_slider_configurations, lines 202-206: the writes of the iterations lo..hi
\* of the bishop loop for one square, as the map from the magic index written to the
\* attack set it holds afterwards (a later iteration overwrites an earlier one)
RECURSIVE bishop_writes(_, _, _, _)
bishop_writes(square, bishop_mask, lo, hi) ==
    IF lo < hi
    THEN bishop_writes(square, bishop_mask, (lo + hi) \div 2 + 1, hi)
            @@ bishop_writes(square, bishop_mask, lo, (lo + hi) \div 2)
    ELSE LET occupancy == generate_occupancy_permutation(
                              lo, BISHOP_RELEVANT_BITS[square + 1], bishop_mask)
         IN  magic_index(occupancy, BISHOP_MAGIC_BITBOARDS[square + 1],
                         BISHOP_RELEVANT_BITS[square + 1])
                :> generate_bishop_moves_on_the_fly(square, occupancy)

\* init_slider_configurations, lines 208-212: the same for the rook loop
RECURSIVE rook_writes(_, _, _, _)
rook_writes(square, rook_mask, lo, hi) ==
    IF lo < hi
    THEN rook_writes(square, rook_mask, (lo + hi) \div 2 + 1, hi)
            @@ rook_writes(square, rook_mask, lo, (lo + hi) \div 2)
    ELSE LET occupancy == generate_occupancy_permutation(
                              lo, ROOK_RELEVANT_BITS[square + 1], rook_mask)
         IN  magic_index(occupancy, ROOK_MAGIC_BITBOARDS[square + 1],
                         ROOK_RELEVANT_BITS[square + 1])
                :> generate_rook_moves_on_the_fly(square, occupancy)

-----------------------------------------------------------------------------
(* CastlingRights (castling_rights.rs) *)

INDEX_2_CASTLING_RIGHTS ==
    << 7, 15, 15, 15,  3, 15, 15, 11,
      15, 15, 15, 15, 15, 15, 15, 15,
      15, 15, 15, 15, 15, 15, 15, 15,
      15, 15, 15, 15, 15, 15, 15, 15,
      15, 15, 15, 15, 15, 15, 15, 15,
      15, 15, 15, 15, 15, 15, 15, 15,
      15, 15, 15, 15, 15, 15, 15, 15,
      13, 15, 15, 15, 12, 15, 15, 14 >>

\* bit i of the four-bit value a
bit(a, i) == (a \div (2 ^ i)) % 2

\* a & b on four-bit values
and4(a, b) ==
    bit(a, 0) * bit(b, 0) + 2 * bit(a, 1) * bit(b, 1)
    + 4 * bit(a, 2) * bit(b, 2) + 8 * bit(a, 3) * bit(b, 3)

CR_DEFAULT == 15

CR_NONE == 0

\* a slip: the masks of the two squares are assigned (=) instead of and-ed in (&=)
update_by_assignment(data, source, target) ==
    and4(INDEX_2_CASTLING_RIGHTS[source + 1], INDEX_2_CASTLING_RIGHTS[target + 1])

\* a slip: only the target square is looked up
update_by_target(data, source, target) ==
    and4(data, INDEX_2_CASTLING_RIGHTS[target + 1])

\* a slip: only the source square is looked up
update_by_source(data, source, target) ==
    and4(data, INDEX_2_CASTLING_RIGHTS[source + 1])

update(data, source, target) ==
    and4(data, and4(INDEX_2_CASTLING_RIGHTS[source + 1], INDEX_2_CASTLING_RIGHTS[target + 1]))

wk(data) == and4(data, 1) # 0

wq(data) == and4(data, 2) # 0

bk(data) == and4(data, 4) # 0

bq(data) == and4(data, 8) # 0

-----------------------------------------------------------------------------
(* BitMove: the five fields of a move; encode packs them, decode returns them *)

encode(source, target, piece, capture, flag) ==
    [source |-> source, target |-> target, piece |-> piece, capture |-> capture, flag |-> flag]

decode(bit_move) ==
    <<bit_move.source, bit_move.target, bit_move.piece, bit_move.capture, bit_move.flag>>

-----------------------------------------------------------------------------
(* Position (position.rs) *)

\* a slip: the queens are left out of the unions
populate_occupancies_without_queens(p) ==
    LET w == p.bbs["WP"] \cup p.bbs["WN"] \cup p.bbs["WB"] \cup p.bbs["WR"] \cup p.bbs["WK"]
        b == p.bbs["BP"] \cup p.bbs["BN"] \cup p.bbs["BB"] \cup p.bbs["BR"] \cup p.bbs["BK"]
    IN  [p EXCEPT !.wo = w, !.bo = b, !.ao = w \cup b]

populate_occupancies(p) ==
    LET w == p.bbs["WP"] \cup p.bbs["WN"] \cup p.bbs["WB"]
             \cup p.bbs["WR"] \cup p.bbs["WQ"] \cup p.bbs["WK"]
        b == p.bbs["BP"] \cup p.bbs["BN"] \cup p.bbs["BB"]
             \cup p.bbs["BR"] \cup p.bbs["BQ"] \cup p.bbs["BK"]
    IN  [p EXCEPT !.wo = w, !.bo = b, !.ao = w \cup b]

starting_position ==
    [bbs |-> [pc0 \in ALL_PIECES |->
                CASE pc0 = "WP" -> 48..55
                  [] pc0 = "WN" -> {57, 62}
                  [] pc0 = "WB" -> {58, 61}
                  [] pc0 = "WR" -> {56, 63}
                  [] pc0 = "WQ" -> {59}
                  [] pc0 = "WK" -> {60}
                  [] pc0 = "BP" -> 8..15
                  [] pc0 = "BN" -> {1, 6}
                  [] pc0 = "BB" -> {2, 5}
                  [] pc0 = "BR" -> {0, 7}
                  [] pc0 = "BQ" -> {3}
                  [] pc0 = "BK" -> {4}],
     wo |-> 48..63,
     bo |-> 0..15,
     ao |-> (0..15) \cup (48..63),
     side |-> WHITE,
     en_passant_sq |-> NoSquare,
     castling_rights |-> CR_DEFAULT]

set_piece(p, piece, sq) == [p EXCEPT !.bbs[piece] = set_sq(@, sq)]

remove_piece(p, piece, sq) == [p EXCEPT !.bbs[piece] = pop_sq(@, sq)]

\* a slip: the rook test is left out
is_square_attacked_without_rooks(p, square, defending_side, enemy) ==
    \/ get_pawn_capture_mask(defending_side, square) \cap p.bbs[enemy[1]] # {}
    \/ get_knight_mask(square) \cap p.bbs[enemy[2]] # {}
    \/ get_bishop_mask(square, p.ao) \cap p.bbs[enemy[3]] # {}
    \/ get_queen_mask(square, p.ao) \cap p.bbs[enemy[5]] # {}
    \/ get_king_mask(square) \cap p.bbs[enemy[6]] # {}

is_square_attacked(p, square, defending_side, enemy) ==
    \/ get_pawn_capture_mask(defending_side, square) \cap p.bbs[enemy[1]] # {}
    \/ get_knight_mask(square) \cap p.bbs[enemy[2]] # {}
    \/ get_bishop_mask(square, p.ao) \cap p.bbs[enemy[3]] # {}
    \/ get_rook_mask(square, p.ao) \cap p.bbs[enemy[4]] # {}
    \/ get_queen_mask(square, p.ao) \cap p.bbs[enemy[5]] # {}
    \/ get_king_mask(square) \cap p.bbs[enemy[6]] # {}

\* a slip: the side is read after it has been switched
promoted_of_switched_side(flag, side) ==
    CASE flag = "PromoQ" -> IF side = WHITE THEN "BQ" ELSE "WQ"
      [] flag = "PromoR" -> IF side = WHITE THEN "BR" ELSE "WR"
      [] flag = "PromoN" -> IF side = WHITE THEN "BN" ELSE "WN"
      [] flag = "PromoB" -> IF side = WHITE THEN "BB" ELSE "WB"

\* the piece a promotion flag places, for the side that moves
promoted(flag, side) ==
    CASE flag = "PromoQ" -> IF side = WHITE THEN "WQ" ELSE "BQ"
      [] flag = "PromoR" -> IF side = WHITE THEN "WR" ELSE "BR"
      [] flag = "PromoN" -> IF side = WHITE THEN "WN" ELSE "BN"
      [] flag = "PromoB" -> IF side = WHITE THEN "WB" ELSE "BB"

PromoFlags == {"PromoN", "PromoB", "PromoR", "PromoQ"}

\* a slip: the captured piece stays on target
make_move_pieces_keeping_capture(p, source, target, piece, capture) ==
    set_piece(remove_piece(p, piece, source), piece, target)

\* make_move, lines 86-93: the piece leaves source, lands on target, the capture leaves target
make_move_pieces(p, source, target, piece, capture) ==
    LET p1 == set_piece(remove_piece(p, piece, source), piece, target)
    IN  IF capture # NoPiece THEN remove_piece(p1, capture, target) ELSE p1

\* a slip: the square the pawn lands on instead of the square behind it
double_pawn_square_on_target(target, flag) == target

\* a slip: the square ahead of the pawn instead of the square behind it
double_pawn_square_ahead(target, flag) ==
    IF flag = "WDoublePawn" THEN above(target) ELSE below(target)

\* make_move, lines 100-101: the en-passant square a double push sets
double_pawn_square(target, flag) ==
    IF flag = "WDoublePawn" THEN below(target) ELSE above(target)

\* a slip: the pawn captured en passant stays on the board
en_passant_capture_keeping_pawn(p, target, flag) == p

\* a slip: the pawn is looked for on the target square instead of the square behind it
en_passant_capture_on_target(p, target, flag) ==
    IF flag = "WEnPassant"
    THEN remove_piece(p, "BP", target)
    ELSE remove_piece(p, "WP", target)

\* make_move, lines 102-103: the pawn an en-passant capture removes
en_passant_capture(p, target, flag) ==
    IF flag = "WEnPassant"
    THEN remove_piece(p, "BP", below(target))
    ELSE remove_piece(p, "WP", above(target))

\* a slip: the rook arms of the two sides of the board are exchanged
castle_rook_of_other_side(p, flag) ==
    CASE flag = "WKCastle" -> set_piece(remove_piece(p, "WR", 56), "WR", 59)
      [] flag = "WQCastle" -> set_piece(remove_piece(p, "WR", 63), "WR", 61)
      [] flag = "BKCastle" -> set_piece(remove_piece(p, "BR", 0), "BR", 3)
      [] flag = "BQCastle" -> set_piece(remove_piece(p, "BR", 7), "BR", 5)

\* make_move, lines 104-119: the rook of a castling move goes from its corner to the
\* square the king passed over
castle_rook(p, flag) ==
    CASE flag = "WKCastle" -> set_piece(remove_piece(p, "WR", 63), "WR", 61)
      [] flag = "WQCastle" -> set_piece(remove_piece(p, "WR", 56), "WR", 59)
      [] flag = "BKCastle" -> set_piece(remove_piece(p, "BR", 7), "BR", 5)
      [] flag = "BQCastle" -> set_piece(remove_piece(p, "BR", 0), "BR", 3)

\* a slip: the en-passant square is left as it was
reset_en_passant_sq_skipped(p) == p

\* make_move, lines 95-96: the en-passant square is reset
reset_en_passant_sq(p) == [p EXCEPT !.en_passant_sq = NoSquare]

\* make_move, lines 95-160: the en-passant square is reset, then the flag is dispatched
make_move_flag(p, target, piece, flag) ==
    LET p0 == reset_en_passant_sq(p)
    IN  CASE flag = "None" -> p0
          [] flag \in {"WDoublePawn", "BDoublePawn"} ->
                [p0 EXCEPT !.en_passant_sq = double_pawn_square(target, flag)]
          [] flag \in {"WEnPassant", "BEnPassant"} -> en_passant_capture(p0, target, flag)
          [] flag \in {"WKCastle", "WQCastle", "BKCastle", "BQCastle"} ->
                castle_rook(p0, flag)
          [] flag \in PromoFlags ->
                set_piece(remove_piece(p0, piece, target), promoted(flag, p0.side), target)

\* a slip: the king of the side to move is tested instead of the mover's
mover_king_attacked_wrong_king(p) ==
    is_square_attacked(p,
        IF p.side = WHITE THEN to_sq(p.bbs["WK"]) ELSE to_sq(p.bbs["BK"]),
        p.side,
        IF p.side = WHITE THEN BLACK_PIECES ELSE WHITE_PIECES)

\* make_move, lines 166-182: is the king of the side that just moved attacked?
mover_king_attacked(p) ==
    is_square_attacked(p,
        IF p.side = WHITE THEN to_sq(p.bbs["BK"]) ELSE to_sq(p.bbs["WK"]),
        opposite(p.side),
        IF p.side = WHITE THEN WHITE_PIECES ELSE BLACK_PIECES)

\* make_move: the position it leaves and the value it returns
make_move(p, bit_move) ==
    LET d == decode(bit_move)
        source == d[1]
        target == d[2]
        piece == d[3]
        capture == d[4]
        flag == d[5]
        p1 == make_move_pieces(p, source, target, piece, capture)
        p2 == make_move_flag(p1, target, piece, flag)
        p3 == [p2 EXCEPT !.castling_rights = update(@, source, target),
                         !.side = switch(@)]
        p4 == populate_occupancies(p3)
    IN  [pos |-> p4, ok |-> ~mover_king_attacked(p4)]

\* undo_move, lines 195-200: the piece goes back to source, the capture back to target
undo_move_pieces(p, source, target, piece, capture) ==
    LET p1 == remove_piece(set_piece(p, piece, source), piece, target)
    IN  IF capture # NoPiece THEN set_piece(p1, capture, target) ELSE p1

\* a slip: the promoted piece stays on target
undo_promotion_keeping_piece(p, target, flag) == p

\* undo_move, lines 230-265: the promoted piece leaves target
undo_promotion(p, target, flag) == remove_piece(p, promoted(flag, p.side), target)

\* undo_move, lines 202-266: the en-passant square is reset, then the flag is dispatched
undo_move_flag(p, target, flag) ==
    LET p0 == [p EXCEPT !.en_passant_sq = NoSquare]
    IN  CASE flag \in {"None", "WDoublePawn", "BDoublePawn"} -> p0
          [] flag = "WEnPassant" ->
                set_piece([p0 EXCEPT !.en_passant_sq = target], "BP", below(target))
          [] flag = "BEnPassant" ->
                set_piece([p0 EXCEPT !.en_passant_sq = target], "WP", above(target))
          [] flag = "WKCastle" -> remove_piece(set_piece(p0, "WR", 63), "WR", 61)
          [] flag = "WQCastle" -> remove_piece(set_piece(p0, "WR", 56), "WR", 59)
          [] flag = "BKCastle" -> remove_piece(set_piece(p0, "BR", 7), "BR", 5)
          [] flag = "BQCastle" -> remove_piece(set_piece(p0, "BR", 0), "BR", 3)
          [] flag \in PromoFlags -> undo_promotion(p0, target, flag)

undo_move(p, bit_move, old_castling_rights) ==
    LET d == decode(bit_move)
        source == d[1]
        target == d[2]
        piece == d[3]
        capture == d[4]
        flag == d[5]
        p1 == [p EXCEPT !.side = switch(@)]
        p2 == undo_move_pieces(p1, source, target, piece, capture)
        p3 == undo_move_flag(p2, target, flag)
        p4 == [p3 EXCEPT !.castling_rights = old_castling_rights]
    IN  populate_occupancies(p4)

get_target_piece(p, enemy_piece_types, target) ==
    IF \E i \in 1..6 : is_set_sq(p.bbs[enemy_piece_types[i]], target)
    THEN enemy_piece_types[CHOOSE i \in 1..6 :
            /\ is_set_sq(p.bbs[enemy_piece_types[i]], target)
            /\ \A j \in 1..(i - 1) : ~is_set_sq(p.bbs[enemy_piece_types[j]], target)]
    ELSE "Panic"

\* a slip: the enemy occupancy is never consulted and no capture is encoded
get_target_piece_if_any_never(p, enemy_piece_types, enemy_occupancies, target) == NoPiece

get_target_piece_if_any(p, enemy_piece_types, enemy_occupancies, target) ==
    IF enemy_occupancies \cap to_bb(target) = {}
    THEN NoPiece
    ELSE get_target_piece(p, enemy_piece_types, target)

\* the concatenation of a sequence of move lists, in order
RECURSIVE Flatten(_)
Flatten(lists) ==
    IF lists = <<>> THEN <<>> ELSE Head(lists) \o Flatten(Tail(lists))

\* the four promotions of one pawn move, in the order the generator adds them
promotions(source, target, pawn, target_piece) ==
    << encode(source, target, pawn, target_piece, "PromoN"),
       encode(source, target, pawn, target_piece, "PromoB"),
       encode(source, target, pawn, target_piece, "PromoR"),
       encode(source, target, pawn, target_piece, "PromoQ") >>

\* generate_moves, lines 353-367: the captures of the pawn on source
pawn_captures(p, source) ==
    LET side == p.side
        pawn == IF side = WHITE THEN "WP" ELSE "BP"
        enemy_pieces == IF side = WHITE THEN BLACK_PIECES ELSE WHITE_PIECES
        enemy_occupancies == IF side = WHITE THEN p.bo ELSE p.wo
        pawn_promotion_rank == IF side = WHITE THEN 7 ELSE 2
        targets == pop_lsb_order(get_pawn_capture_mask(side, source) \cap enemy_occupancies)
        one(target) ==
            LET target_piece == get_target_piece(p, enemy_pieces, target)
            IN  IF rank(source) = pawn_promotion_rank
                THEN promotions(source, target, pawn, target_piece)
                ELSE << encode(source, target, pawn, target_piece, "None") >>
    IN  Flatten([i \in 1..Len(targets) |-> one(targets[i])])

\* a slip: the mask looked up is that of the square ahead of the pawn
both_push_squares_empty_from_ahead(p, side, source) ==
    get_pawn_quiet_mask(side, IF side = WHITE THEN above(source) ELSE below(source))
        \cap p.ao = {}

\* a slip: only the double-push square is looked at
both_push_squares_empty_unchecked(p, side, source) == TRUE

\* generate_moves, line 376: are both squares in front of the pawn empty?
both_push_squares_empty(p, side, source) ==
    get_pawn_quiet_mask(side, source) \cap p.ao = {}

\* generate_moves, lines 369-387: the pushes of the pawn on source
pawn_quiets(p, source) ==
    LET side == p.side
        pawn == IF side = WHITE THEN "WP" ELSE "BP"
        pawn_promotion_rank == IF side = WHITE THEN 7 ELSE 2
        pawn_starting_rank == IF side = WHITE THEN 2 ELSE 7
        pawn_double_push_rank == IF side = WHITE THEN 4 ELSE 5
        double_pawn_flag == IF side = WHITE THEN "WDoublePawn" ELSE "BDoublePawn"
        targets == pop_lsb_order(get_pawn_quiet_mask(side, source) \ p.ao)
        one(target) ==
            IF rank(source) = pawn_starting_rank /\ rank(target) = pawn_double_push_rank
            THEN IF both_push_squares_empty(p, side, source)
                 THEN << encode(source, target, pawn, NoPiece, double_pawn_flag) >>
                 ELSE << >>
            ELSE IF rank(source) = pawn_promotion_rank
                 THEN promotions(source, target, pawn, NoPiece)
                 ELSE << encode(source, target, pawn, NoPiece, "None") >>
    IN  Flatten([i \in 1..Len(targets) |-> one(targets[i])])

\* generate_moves, lines 389-398: the en-passant capture of the pawn on source
pawn_en_passant(p, source) ==
    LET side == p.side
        pawn == IF side = WHITE THEN "WP" ELSE "BP"
        en_passant_rank == IF side = WHITE THEN 5 ELSE 4
        en_passant_flag == IF side = WHITE THEN "WEnPassant" ELSE "BEnPassant"
        targets == pop_lsb_order(get_pawn_capture_mask(side, source))
    IN  IF p.en_passant_sq # NoSquare /\ rank(source) = en_passant_rank
        THEN Flatten([i \in 1..Len(targets) |->
                IF targets[i] = p.en_passant_sq
                THEN << encode(source, targets[i], pawn, NoPiece, en_passant_flag) >>
                ELSE << >>])
        ELSE << >>

\* generate_moves, lines 344-400
pawn_moves(p) ==
    LET pawn == IF p.side = WHITE THEN "WP" ELSE "BP"
        sources == pop_lsb_order(p.bbs[pawn])
    IN  Flatten([i \in 1..Len(sources) |->
            pawn_captures(p, sources[i]) \o pawn_quiets(p, sources[i])
            \o pawn_en_passant(p, sources[i])])

\* the plain moves of the piece on source to the squares of move_mask
plain_moves(p, source, piece, move_mask) ==
    LET enemy_pieces == IF p.side = WHITE THEN BLACK_PIECES ELSE WHITE_PIECES
        enemy_occupancies == IF p.side = WHITE THEN p.bo ELSE p.wo
        targets == pop_lsb_order(move_mask)
    IN  [i \in 1..Len(targets) |->
            encode(source, targets[i], piece,
                   get_target_piece_if_any(p, enemy_pieces, enemy_occupancies, targets[i]),
                   "None")]

\* the side's own occupancy, whose complement is inv_own_occupancies
own_occupancies(p) == IF p.side = WHITE THEN p.wo ELSE p.bo

\* generate_moves, lines 402-417
knight_moves(p) ==
    LET knight == IF p.side = WHITE THEN "WN" ELSE "BN"
        sources == pop_lsb_order(p.bbs[knight])
    IN  Flatten([i \in 1..Len(sources) |->
            plain_moves(p, sources[i], knight,
                        get_knight_mask(sources[i]) \ own_occupancies(p))])

\* a slip: the king's own square is not tested
king_side_squares_safe_without_e(p, side, enemy_pieces, e, f, g) ==
    /\ ~is_square_attacked(p, f, side, enemy_pieces)
    /\ ~is_square_attacked(p, g, side, enemy_pieces)

\* generate_moves, lines 435-437: none of the squares e, f, g is attacked
king_side_squares_safe(p, side, enemy_pieces, e, f, g) ==
    /\ ~is_square_attacked(p, e, side, enemy_pieces)
    /\ ~is_square_attacked(p, f, side, enemy_pieces)
    /\ ~is_square_attacked(p, g, side, enemy_pieces)

\* a slip: the rook's path square on the b-file is tested as well
queen_side_squares_safe_with_b(p, side, enemy_pieces, e, d, c) ==
    /\ ~is_square_attacked(p, e, side, enemy_pieces)
    /\ ~is_square_attacked(p, d, side, enemy_pieces)
    /\ ~is_square_attacked(p, c, side, enemy_pieces)
    /\ ~is_square_attacked(p, c - 1, side, enemy_pieces)

\* generate_moves, lines 446-448: none of the squares e, d, c is attacked
queen_side_squares_safe(p, side, enemy_pieces, e, d, c) ==
    /\ ~is_square_attacked(p, e, side, enemy_pieces)
    /\ ~is_square_attacked(p, d, side, enemy_pieces)
    /\ ~is_square_attacked(p, c, side, enemy_pieces)

\* generate_moves, lines 432-452
castling_moves(p, source) ==
    LET side == p.side
        king == IF side = WHITE THEN "WK" ELSE "BK"
        enemy_pieces == IF side = WHITE THEN BLACK_PIECES ELSE WHITE_PIECES
        king_side_castling_flag == IF side = WHITE THEN "WKCastle" ELSE "BKCastle"
        queen_side_castling_flag == IF side = WHITE THEN "WQCastle" ELSE "BQCastle"
        king_side_castling_mask == IF side = WHITE THEN W_KING_SIDE_MASK ELSE B_KING_SIDE_MASK
        queen_side_castling_mask == IF side = WHITE THEN W_QUEEN_SIDE_MASK ELSE B_QUEEN_SIDE_MASK
        king_side_castling_right ==
            IF side = WHITE THEN wk(p.castling_rights) ELSE bk(p.castling_rights)
        queen_side_castling_right ==
            IF side = WHITE THEN wq(p.castling_rights) ELSE bq(p.castling_rights)
        castling_square_c == IF side = WHITE THEN 58 ELSE 2
        castling_square_d == IF side = WHITE THEN 59 ELSE 3
        castling_square_e == IF side = WHITE THEN 60 ELSE 4
        castling_square_f == IF side = WHITE THEN 61 ELSE 5
        castling_square_g == IF side = WHITE THEN 62 ELSE 6
        king_side ==
            IF /\ king_side_castling_right
               /\ p.ao \cap king_side_castling_mask = {}
               /\ king_side_squares_safe(p, side, enemy_pieces, castling_square_e,
                                         castling_square_f, castling_square_g)
            THEN << encode(source, castling_square_g, king, NoPiece, king_side_castling_flag) >>
            ELSE << >>
        queen_side ==
            IF /\ queen_side_castling_right
               /\ p.ao \cap queen_side_castling_mask = {}
               /\ queen_side_squares_safe(p, side, enemy_pieces, castling_square_e,
                                          castling_square_d, castling_square_c)
            THEN << encode(source, castling_square_c, king, NoPiece, queen_side_castling_flag) >>
            ELSE << >>
    IN  king_side \o queen_side

\* generate_moves, lines 419-453
king_moves(p) ==
    LET king == IF p.side = WHITE THEN "WK" ELSE "BK"
        source == to_sq(p.bbs[king])
    IN  plain_moves(p, source, king, get_king_mask(source) \ own_occupancies(p))
        \o castling_moves(p, source)

\* generate_moves, lines 455-469
bishop_moves(p) ==
    LET bishop == IF p.side = WHITE THEN "WB" ELSE "BB"
        sources == pop_lsb_order(p.bbs[bishop])
    IN  Flatten([i \in 1..Len(sources) |->
            plain_moves(p, sources[i], bishop,
                        get_bishop_mask(sources[i], p.ao) \ own_occupancies(p))])

\* generate_moves, lines 471-485
rook_moves(p) ==
    LET rook == IF p.side = WHITE THEN "WR" ELSE "BR"
        sources == pop_lsb_order(p.bbs[rook])
    IN  Flatten([i \in 1..Len(sources) |->
            plain_moves(p, sources[i], rook,
                        get_rook_mask(sources[i], p.ao) \ own_occupancies(p))])

\* generate_moves, lines 487-501
queen_moves(p) ==
    LET queen == IF p.side = WHITE THEN "WQ" ELSE "BQ"
        sources == pop_lsb_order(p.bbs[queen])
    IN  Flatten([i \in 1..Len(sources) |->
            plain_moves(p, sources[i], queen,
                        get_queen_mask(sources[i], p.ao) \ own_occupancies(p))])

generate_moves(p) ==
    pawn_moves(p) \o knight_moves(p) \o king_moves(p)
    \o bishop_moves(p) \o rook_moves(p) \o queen_moves(p)

default_position ==
    [bbs |-> [pc0 \in ALL_PIECES |-> EMPTY],
     wo |-> EMPTY, bo |-> EMPTY, ao |-> EMPTY,
     side |-> WHITE,
     en_passant_sq |-> NoSquare,
     castling_rights |-> CR_NONE]

-----------------------------------------------------------------------------
(* The positions the callers hand to the core: the starting position and the *)
(* positions of the test scenarios, set up on Position::default().           *)

\* a position set up from a placement (a record from piece names to bitboards)
setup(placement, side, en_passant_sq, castling_rights) ==
    populate_occupancies(
        [default_position EXCEPT
            !.bbs = [pc0 \in ALL_PIECES |->
                        IF pc0 \in DOMAIN placement THEN placement[pc0] ELSE EMPTY],
            !.side = side,
            !.en_passant_sq = en_passant_sq,
            !.castling_rights = castling_rights])

\* 8/2p5/3p4/KP5r/1R3p1k/8/4P1P1/8 w - -
en_passant_position ==
    setup([WP |-> {25, 52, 54}, WR |-> {33}, WK |-> {24},
           BP |-> {10, 19, 37}, BR |-> {31}, BK |-> {39}], WHITE, NoSquare, CR_NONE)

\* 4k3/P7/8/8/8/8/8/4K3 w - -
promotion_position ==
    setup([WP |-> {8}, WK |-> {60}, BK |-> {4}], WHITE, NoSquare, CR_NONE)

\* 4k3/8/8/8/8/8/4r3/R3K2R w KQ -
castling_blocked_position ==
    setup([WR |-> {56, 63}, WK |-> {60}, BR |-> {52}, BK |-> {4}], WHITE, NoSquare, 3)

\* r3k2r/1P4p1/8/8/8/8/1p4P1/R3K2R w KQkq -
castling_position ==
    setup([WP |-> {9, 54}, WR |-> {56, 63}, WK |-> {60},
           BP |-> {14, 49}, BR |-> {0, 7}, BK |-> {4}], WHITE, NoSquare, CR_DEFAULT)

\* r3k3/8/8/4B3/4b3/8/8/R3K3 w Qq -
queen_side_castling_position ==
    setup([WB |-> {28}, WR |-> {56}, WK |-> {60},
           BB |-> {36}, BR |-> {0}, BK |-> {4}], WHITE, NoSquare, 10)

\* 4k3/8/8/8/5p2/8/4P3/4K3 w - -
black_en_passant_position ==
    setup([WP |-> {52}, WK |-> {60}, BP |-> {37}, BK |-> {4}], WHITE, NoSquare, CR_NONE)

\* 4k3/2p5/8/1P6/8/8/8/4K3 b - -
white_en_passant_position ==
    setup([WP |-> {25}, WK |-> {60}, BP |-> {10}, BK |-> {4}], BLACK, NoSquare, CR_NONE)

Roots ==
    { starting_position, en_passant_position, promotion_position,
      castling_blocked_position, castling_position, queen_side_castling_position,
      black_en_passant_position, white_en_passant_position }

-----------------------------------------------------------------------------
(* The caller: it makes moves of generate_moves, keeps each made move with *)
(* the rights saved before it, and takes the last one back with undo_move. *)
(* make_move leaves the move applied when it returns false, so the caller  *)
(* takes a rejected move back with undo_move before it goes on.            *)

\* the most plies the caller has made and not taken back
MaxPly == 2

Init ==
    /\ pos \in Roots
    /\ hist = << >>
    /\ last = [op |-> "init", flag |-> "None", ok |-> TRUE, before |-> pos]
    /\ pc = "ready"
    /\ stack = << >>
    /\ nodes = << >>
    /\ tables = << >>
    /\ calls = 0

MakeMove ==
    /\ pc = "ready"
    /\ Len(hist) < MaxPly
    /\ \E move_list \in {generate_moves(pos)} :
          \E i \in 1..Len(move_list) :
             \E r \in {make_move(pos, move_list[i])} :
                /\ pos' = r.pos
                /\ hist' = Append(hist, [move |-> move_list[i],
                                         rights |-> pos.castling_rights,
                                         before |-> pos,
                                         ok |-> r.ok])
                /\ last' = [op |-> "make", flag |-> move_list[i].flag,
                            ok |-> r.ok, before |-> pos]
                /\ pc' = IF r.ok THEN "ready" ELSE "rejected"
    /\ UNCHANGED <<stack, nodes, tables, calls>>

UndoMove ==
    /\ hist # << >>
    /\ \E top \in {hist[Len(hist)]} :
          /\ pos' = undo_move(pos, top.move, top.rights)
          /\ last' = [op |-> "undo", flag |-> top.move.flag,
                      ok |-> top.ok, before |-> top.before]
    /\ hist' = SubSeq(hist, 1, Len(hist) - 1)
    /\ pc' = "ready"
    /\ UNCHANGED <<stack, nodes, tables, calls>>

Next == MakeMove \/ UndoMove

Spec == Init /\ [][Next]_vars

-----------------------------------------------------------------------------
(* Perft: the depth-first count of the positions reached by the moves of   *)
(* generate_moves for which make_move returns true, each move made on a    *)
(* copy of its position. A frame is a position and the index of its next   *)
(* move; the frame at level d holds a position d - 1 plies from the root.  *)

PerftDepth == 3

PerftRoots == { starting_position, en_passant_position }

PerftInit ==
    /\ pos \in PerftRoots
    /\ hist = << >>
    /\ last = [op |-> "init", flag |-> "None", ok |-> TRUE, before |-> pos]
    /\ pc = "ready"
    /\ stack = << [pos |-> pos, idx |-> 1] >>
    /\ nodes = [d \in 1..PerftDepth |-> 0]
    /\ tables = << >>
    /\ calls = 0

\* the moves of move_list that make_move accepts on p
legal_count(p, move_list) ==
    Cardinality({i \in 1..Len(move_list) : make_move(p, move_list[i]).ok})

\* a frame at the last level: its accepted moves are counted, and it is left
PerftLeaves ==
    /\ Len(stack) = PerftDepth
    /\ \E top \in {stack[Len(stack)]} :
          nodes' = [nodes EXCEPT
                      ![PerftDepth] = @ + legal_count(top.pos, generate_moves(top.pos))]
    /\ stack' = SubSeq(stack, 1, Len(stack) - 1)
    /\ UNCHANGED <<pos, hist, last, pc, tables, calls>>

\* a frame above the last level makes its next move on a copy and descends
PerftMake ==
    /\ stack # << >>
    /\ Len(stack) < PerftDepth
    /\ \E top \in {stack[Len(stack)]} :
          \E move_list \in {generate_moves(top.pos)} :
             /\ top.idx <= Len(move_list)
             /\ \E r \in {make_move(top.pos, move_list[top.idx])} :
                   IF r.ok
                   THEN /\ nodes' = [nodes EXCEPT ![Len(stack)] = @ + 1]
                        /\ stack' = Append([stack EXCEPT ![Len(stack)].idx = @ + 1],
                                           [pos |-> r.pos, idx |-> 1])
                   ELSE /\ nodes' = nodes
                        /\ stack' = [stack EXCEPT ![Len(stack)].idx = @ + 1]
    /\ UNCHANGED <<pos, hist, last, pc, tables, calls>>

\* a frame above the last level with no move left is left
PerftReturn ==
    /\ stack # << >>
    /\ Len(stack) < PerftDepth
    /\ stack[Len(stack)].idx > Len(generate_moves(stack[Len(stack)].pos))
    /\ stack' = SubSeq(stack, 1, Len(stack) - 1)
    /\ UNCHANGED <<pos, hist, last, pc, nodes, tables, calls>>

PerftNext == PerftLeaves \/ PerftMake \/ PerftReturn

SpecPerft == PerftInit /\ [][PerftNext]_vars

-----------------------------------------------------------------------------
(* init(): the static tables and the two passes that fill them. Each pass   *)
(* of init_masks and of init_slider_configurations over ALL_SQUARES writes  *)
(* only the entries of its own square and reads only entries of that square *)
(* (the masks init_masks has just written), so the state follows the        *)
(* entries of one square, drawn when the program starts. The per-colour     *)
(* pawn tables are keyed by the colour.                                     *)

\* the second dimension of BISHOP_MOVE_CONFIGURATIONS and ROOK_MOVE_CONFIGURATIONS
BISHOP_CONFIGURATIONS == 512

ROOK_CONFIGURATIONS == 4096

\* the calls of init() that are followed
MaxInitCalls == 2

\* move_init.rs, lines 3-10: the tables as declared, every entry Bitboard::EMPTY
static_tables(square) ==
    [ square |-> square,
      pawn_quiet_masks |-> [c \in {WHITE, BLACK} |-> EMPTY],
      pawn_capture_masks |-> [c \in {WHITE, BLACK} |-> EMPTY],
      knight_masks |-> EMPTY,
      king_masks |-> EMPTY,
      bishop_masks |-> EMPTY,
      rook_masks |-> EMPTY,
      bishop_move_configurations |-> [i \in 0..(BISHOP_CONFIGURATIONS - 1) |-> EMPTY],
      rook_move_configurations |-> [i \in 0..(ROOK_CONFIGURATIONS - 1) |-> EMPTY] ]

\* the entry merged with the value by ^=
store_toggling(entry, value) == (entry \ value) \cup (value \ entry)

\* an assignment TABLE[..] = value: the entry holds the value, whatever it held
store(entry, value) == value

\* a slip: the king mask is merged with ^= while the others are assigned
init_masks_toggling_king(t) ==
    [t EXCEPT
       !.pawn_quiet_masks[WHITE] = store(@, generate_pawn_quiet_mask(WHITE, t.square)),
       !.pawn_capture_masks[WHITE] = store(@, generate_pawn_capture_mask(WHITE, t.square)),
       !.pawn_quiet_masks[BLACK] = store(@, generate_pawn_quiet_mask(BLACK, t.square)),
       !.pawn_capture_masks[BLACK] = store(@, generate_pawn_capture_mask(BLACK, t.square)),
       !.knight_masks = store(@, generate_knight_mask(t.square)),
       !.king_masks = store_toggling(@, generate_king_mask(t.square)),
       !.bishop_masks = store(@, generate_bishop_mask(t.square)),
       !.rook_masks = store(@, generate_rook_mask(t.square))]

\* init_masks, lines 177-184, for the square of t
init_masks(t) ==
    [t EXCEPT
       !.pawn_quiet_masks[WHITE] = store(@, generate_pawn_quiet_mask(WHITE, t.square)),
       !.pawn_capture_masks[WHITE] = store(@, generate_pawn_capture_mask(WHITE, t.square)),
       !.pawn_quiet_masks[BLACK] = store(@, generate_pawn_quiet_mask(BLACK, t.square)),
       !.pawn_capture_masks[BLACK] = store(@, generate_pawn_capture_mask(BLACK, t.square)),
       !.knight_masks = store(@, generate_knight_mask(t.square)),
       !.king_masks = store(@, generate_king_mask(t.square)),
       !.bishop_masks = store(@, generate_bishop_mask(t.square)),
       !.rook_masks = store(@, generate_rook_mask(t.square))]

\* a slip: the occupancy is not reduced to the relevant squares
bishop_index_unmasked(t, occupancy) ==
    magic_index(occupancy, BISHOP_MAGIC_BITBOARDS[t.square + 1],
                BISHOP_RELEVANT_BITS[t.square + 1])

\* get_bishop_mask, lines 26-29: the index the getter reads
bishop_index(t, occupancy) ==
    magic_index(occupancy \cap t.bishop_masks, BISHOP_MAGIC_BITBOARDS[t.square + 1],
                BISHOP_RELEVANT_BITS[t.square + 1])

\* get_rook_mask, lines 37-40: the index the getter reads
rook_index(t, occupancy) ==
    magic_index(occupancy \cap t.rook_masks, ROOK_MAGIC_BITBOARDS[t.square + 1],
                ROOK_RELEVANT_BITS[t.square + 1])

TablesInit ==
    /\ tables \in {static_tables(square) : square \in SquareSet}
    /\ calls = 0
    /\ pc = "init"
    /\ last = tables
    /\ pos = default_position
    /\ hist = << >>
    /\ stack = << >>
    /\ nodes = << >>

\* init_masks, lines 186-187: the two debug_assert_eq! of the pass
relevant_bits_agree(t) ==
    /\ count_bits(t.bishop_masks) = BISHOP_RELEVANT_BITS[t.square + 1]
    /\ count_bits(t.rook_masks) = ROOK_RELEVANT_BITS[t.square + 1]

\* init, line 170: a failed debug assertion panics in a debug build and is not
\* evaluated in a release build
InitMasks ==
    /\ pc = "init"
    /\ tables' = init_masks(tables)
    /\ IF relevant_bits_agree(tables')
       THEN pc' = "init_slider_configurations"
       ELSE pc' \in {"panicked", "init_slider_configurations"}
    /\ UNCHANGED <<pos, hist, last, stack, nodes, calls>>

\* init, line 171: both loops of init_slider_configurations for the square; a write
\* at an index that is not below the second dimension of its table panics
InitSliderConfigurations ==
    /\ pc = "init_slider_configurations"
    /\ \E bishop \in {bishop_writes(tables.square, tables.bishop_masks, 0,
                                    2 ^ BISHOP_RELEVANT_BITS[tables.square + 1] - 1)} :
       \E rook \in {rook_writes(tables.square, tables.rook_masks, 0,
                                2 ^ ROOK_RELEVANT_BITS[tables.square + 1] - 1)} :
          IF /\ DOMAIN bishop \subseteq DOMAIN tables.bishop_move_configurations
             /\ DOMAIN rook \subseteq DOMAIN tables.rook_move_configurations
          THEN /\ tables' = [tables EXCEPT !.bishop_move_configurations = bishop @@ @,
                                           !.rook_move_configurations = rook @@ @]
               /\ calls' = calls + 1
               /\ pc' = "returned"
          ELSE /\ pc' = "panicked"
               /\ UNCHANGED <<tables, calls>>
    /\ UNCHANGED <<pos, hist, last, stack, nodes>>

\* the host calls init() again; last keeps the tables as the call found them
CallInit ==
    /\ pc = "returned"
    /\ calls < MaxInitCalls
    /\ pc' = "init"
    /\ last' = tables
    /\ UNCHANGED <<pos, hist, stack, nodes, tables, calls>>

InitNext == InitMasks \/ InitSliderConfigurations \/ CallInit

SpecInit == TablesInit /\ [][InitNext]_vars

-----------------------------------------------------------------------------
(* BoardState (board_state.rs): the legacy board. Its fields, set_piece,    *)
(* remove_piece, populate_occupancies, is_square_attacked and undo_move are *)
(* those of Position line for line, and so is make_move up to its legality  *)
(* test; on a failed test it calls undo_move with the rights it was handed. *)

\* a slip: the move is left applied when the legality test fails
board_state_make_move_without_undo(b, bit_move, castling_rights) ==
    make_move(b, bit_move)

\* BoardState::make_move: the board it leaves and the value it returns
board_state_make_move(b, bit_move, castling_rights) ==
    LET r == make_move(b, bit_move)
    IN  IF r.ok
        THEN r
        ELSE [pos |-> undo_move(r.pos, bit_move, castling_rights), ok |-> FALSE]

BoardStateInit ==
    /\ pos \in Roots
    /\ hist = << >>
    /\ last = [op |-> "init", ok |-> TRUE, before |-> pos,
               move |-> encode(NoSquare, NoSquare, NoPiece, NoPiece, "None"),
               rights |-> pos.castling_rights]
    /\ pc = "ready"
    /\ stack = << >>
    /\ nodes = << >>
    /\ tables = << >>
    /\ calls = 0

\* the caller makes a move of the move list, handing over the rights of the board or,
\* wrongly, no rights at all; a move that came back false has been taken back
BoardStateMakeMove ==
    /\ Len(hist) < MaxPly
    /\ \E move_list \in {generate_moves(pos)} :
          \E i \in 1..Len(move_list) :
             \E castling_rights \in {pos.castling_rights, CR_NONE} :
                \E r \in {board_state_make_move(pos, move_list[i], castling_rights)} :
                   /\ pos' = r.pos
                   /\ hist' = IF r.ok THEN Append(hist, move_list[i]) ELSE hist
                   /\ last' = [op |-> "make", ok |-> r.ok, before |-> pos,
                               move |-> move_list[i], rights |-> castling_rights]
    /\ UNCHANGED <<pc, stack, nodes, tables, calls>>

BoardStateNext == BoardStateMakeMove

SpecBoardState == BoardStateInit /\ [][BoardStateNext]_vars

-----------------------------------------------------------------------------
(* Color as an array index (color.rs, Index<Color> and IndexMut<Color>):    *)
(* the outer arrays of PAWN_QUIET_MASKS and PAWN_CAPTURE_MASKS as declared, *)
(* with positions 0 and 1, and the position a colour selects in them. The   *)
(* state follows the entries of one square. An index that is not below the  *)
(* length of the array panics, in debug and in release builds alike.        *)

\* the outer length of PAWN_QUIET_MASKS and PAWN_CAPTURE_MASKS
PAWN_MASKS_LEN == 2

\* color.rs, lines 36-38 and 42-44: the position is index.data as usize
color_index(c) == c

\* move_init.rs, lines 3-4: the two pawn tables as declared, for one square
static_pawn_tables(square) ==
    [ square |-> square,
      pawn_quiet_masks |-> [i \in 0..(PAWN_MASKS_LEN - 1) |-> EMPTY],
      pawn_capture_masks |-> [i \in 0..(PAWN_MASKS_LEN - 1) |-> EMPTY] ]

ColorIndexInit ==
    /\ tables \in {static_pawn_tables(square) : square \in SquareSet}
    /\ pc = "init_masks"
    /\ last = [op |-> "start", color |-> WHITE, index |-> color_index(WHITE)]
    /\ pos = default_position
    /\ hist = << >>
    /\ stack = << >>
    /\ nodes = << >>
    /\ calls = 0

\* init_masks, lines 177-178 and 179-180: the two writes of the pass for colour c;
\* next is the position of the program after them
write_pawn_masks(c, next) ==
    /\ last' = [op |-> "write", color |-> c, index |-> color_index(c)]
    /\ IF color_index(c) < PAWN_MASKS_LEN
       THEN /\ tables' = [tables EXCEPT
                  !.pawn_quiet_masks[color_index(c)] =
                      generate_pawn_quiet_mask(c, tables.square),
                  !.pawn_capture_masks[color_index(c)] =
                      generate_pawn_capture_mask(c, tables.square)]
            /\ pc' = next
       ELSE /\ pc' = "panicked"
            /\ UNCHANGED tables
    /\ UNCHANGED <<pos, hist, stack, nodes, calls>>

\* init_masks, lines 177-178
InitMasksWhite ==
    /\ pc = "init_masks"
    /\ write_pawn_masks(WHITE, "init_masks_black")

\* init_masks, lines 179-180
InitMasksBlack ==
    /\ pc = "init_masks_black"
    /\ write_pawn_masks(BLACK, "init_masks_rest")

\* move_gen.rs, lines 4-6 and 9-11: a getter reads the row of colour c
read_pawn_masks(op, c) ==
    /\ last' = [op |-> op, color |-> c, index |-> color_index(c)]
    /\ pc' = IF color_index(c) < PAWN_MASKS_LEN THEN pc ELSE "panicked"
    /\ UNCHANGED <<pos, hist, stack, nodes, tables, calls>>

\* a call of get_pawn_quiet_mask(c, square)
GetPawnQuietMask ==
    /\ pc # "panicked"
    /\ \E c \in {WHITE, BLACK} : read_pawn_masks("get_pawn_quiet_mask", c)

\* a call of get_pawn_capture_mask(c, square)
GetPawnCaptureMask ==
    /\ pc # "panicked"
    /\ \E c \in {WHITE, BLACK} : read_pawn_masks("get_pawn_capture_mask", c)

ColorIndexNext ==
    InitMasksWhite \/ InitMasksBlack \/ GetPawnQuietMask \/ GetPawnCaptureMask

SpecColorIndex == ColorIndexInit /\ [][ColorIndexNext]_vars

-----------------------------------------------------------------------------
(* Chess geometry, stated on board coordinates and independently of the    *)
(* attack tables: the yardstick the properties below compare the code to.  *)

Abs(x) == IF x < 0 THEN -x ELSE x

Sgn(x) == IF x < 0 THEN -1 ELSE IF x > 0 THEN 1 ELSE 0

\* file and row distance from square q to square s (rows grow towards rank 1)
DFile(q, s) == (s % 8) - (q % 8)

DRow(q, s) == (s \div 8) - (q \div 8)

\* the squares strictly between q and s on a common line
Between(q, s) ==
    LET n == IF Abs(DFile(q, s)) > Abs(DRow(q, s)) THEN Abs(DFile(q, s)) ELSE Abs(DRow(q, s))
        step == 8 * Sgn(DRow(q, s)) + Sgn(DFile(q, s))
    IN  {q + k * step : k \in 1..(n - 1)}

OnDiagonal(q, s) == q # s /\ Abs(DFile(q, s)) = Abs(DRow(q, s))

OnLine(q, s) == q # s /\ (DFile(q, s) = 0 \/ DRow(q, s) = 0)

\* the piece of the given kind on q attacks s, on a board occupied by occ
PieceAttacks(piece, q, s, occ) ==
    CASE piece = "WP" -> DRow(q, s) = -1 /\ Abs(DFile(q, s)) = 1
      [] piece = "BP" -> DRow(q, s) = 1 /\ Abs(DFile(q, s)) = 1
      [] piece \in {"WN", "BN"} ->
            {Abs(DFile(q, s)), Abs(DRow(q, s))} = {1, 2}
      [] piece \in {"WK", "BK"} ->
            q # s /\ Abs(DFile(q, s)) <= 1 /\ Abs(DRow(q, s)) <= 1
      [] piece \in {"WB", "BB"} -> OnDiagonal(q, s) /\ Between(q, s) \cap occ = {}
      [] piece \in {"WR", "BR"} -> OnLine(q, s) /\ Between(q, s) \cap occ = {}
      [] piece \in {"WQ", "BQ"} ->
            (OnDiagonal(q, s) \/ OnLine(q, s)) /\ Between(q, s) \cap occ = {}

\* some piece of colour c attacks square s in position p
AttackedBy(p, s, c) ==
    \E piece \in {x \in ALL_PIECES : color(x) = c} :
        \E q \in p.bbs[piece] : PieceAttacks(piece, q, s, p.ao)

KingSquare(p, c) == to_sq(p.bbs[IF c = WHITE THEN "WK" ELSE "BK"])

\* the move on top of the caller's stack
TopMove == hist[Len(hist)].move

-----------------------------------------------------------------------------
(* Properties *)

\* the position the caller started from
Root == IF hist = << >> THEN last.before ELSE hist[1].before

\* the moves the caller has made and not taken back were all accepted
AllAccepted == \A i \in 1..Len(hist) : hist[i].ok

\* C1: in a position reached from the starting position by accepted moves, after
\* undo_move of a move that make_move accepted, with the rights saved before the
\* make, the position equals the position before the make in all 12 piece
\* bitboards, the 3 occupancies, the side, the en-passant square and the rights.
C1_RoundTripLaw ==
    (last.op = "undo" /\ last.ok /\ AllAccepted /\ Root = starting_position)
        => pos = last.before

\* C2: when make_move returns false, the position on return equals the position
\* before the call.
C2_RejectedMoveRestored ==
    (last.op = "make" /\ ~last.ok) => pos = last.before

\* C3: make_move returns true exactly when the king of the side that just moved is
\* not attacked by a piece of the other side in the position it leaves; so whenever
\* the caller may go on, the king of the side not to move is not attacked.
C3_LegalityCheck ==
    /\ last.op = "make" =>
          (last.ok <=> ~AttackedBy(pos, KingSquare(pos, opposite(pos.side)), pos.side))
    /\ pc = "ready" => ~AttackedBy(pos, KingSquare(pos, opposite(pos.side)), pos.side)

\* a pseudo-legal move was rejected, and an accepted move was made after an accepted move
C3_Witness ==
    last.op = "make" /\ ~last.ok /\ Len(hist) = 2 /\ hist[1].ok

\* C4: in every position reached by accepted moves and their undos, no square is
\* set in two piece bitboards.
C4_PiecesDisjoint ==
    pc = "ready" =>
        \A x \in ALL_PIECES : \A y \in ALL_PIECES \ {x} : pos.bbs[x] \cap pos.bbs[y] = {}

\* an accepted capture that promotes has just been made
C4_Witness ==
    /\ last.op = "make"
    /\ last.ok
    /\ TopMove.capture # NoPiece
    /\ TopMove.flag \in PromoFlags

\* C5: after starting_position and after every make_move and undo_move, the white
\* occupancy is the union of the six white bitboards, the black occupancy the union
\* of the six black ones, and the all-occupancy the union of the two.
C5_Occupancies ==
    /\ pos.wo = UNION {pos.bbs[WHITE_PIECES[i]] : i \in 1..6}
    /\ pos.bo = UNION {pos.bbs[BLACK_PIECES[i]] : i \in 1..6}
    /\ pos.ao = pos.wo \cup pos.bo

\* a move was taken back in a position that a capture had led to
C5_Witness ==
    /\ last.op = "undo"
    /\ hist # << >>
    /\ TopMove.capture # NoPiece

\* C6: in every position reached by accepted moves and their undos there is exactly
\* one white king and exactly one black king, and no move of generate_moves captures
\* a king.
C6_OneKingEach ==
    pc = "ready" =>
        /\ Cardinality(pos.bbs["WK"]) = 1
        /\ Cardinality(pos.bbs["BK"]) = 1
        /\ \A move_list \in {generate_moves(pos)} :
              \A i \in 1..Len(move_list) : move_list[i].capture \notin {"WK", "BK"}

\* an accepted move left the king of the side to move in check
C6_Witness ==
    /\ last.op = "make"
    /\ last.ok
    /\ AttackedBy(pos, KingSquare(pos, pos.side), opposite(pos.side))

\* C7 as stated: a set en-passant square lies on rank 3 when White is to move and
\* on rank 6 when Black is to move.
C7_AsStated ==
    pos.en_passant_sq # NoSquare =>
        rank(pos.en_passant_sq) = (IF pos.side = WHITE THEN 3 ELSE 6)

\* C7 amended: a set en-passant square lies on rank 6 when White is to move and on
\* rank 3 when Black is to move (it is the square the pawn of the side that just
\* moved passed over).
C7_EnPassantRank ==
    pos.en_passant_sq # NoSquare =>
        rank(pos.en_passant_sq) = (IF pos.side = WHITE THEN 6 ELSE 3)

\* a double push by Black has set the en-passant square
C7_Witness ==
    pos.en_passant_sq # NoSquare /\ pos.side = WHITE

\* C8: perft from the starting position counts 20 positions at depth 1, 400 at
\* depth 2 and 8,902 at depth 3.
C8_PerftStart ==
    (stack = << >> /\ pos = starting_position) => nodes = <<20, 400, 8902>>

\* the walk from the starting position has ended
C8_Witness ==
    stack = << >> /\ pos = starting_position /\ nodes[PerftDepth] > 0

\* C9: perft from 8/2p5/3p4/KP5r/1R3p1k/8/4P1P1/8 (White to move) counts 14
\* positions at depth 1, 191 at depth 2 and 2,812 at depth 3 (the en-passant
\* captures that expose the capturer's king along the rank are not counted).
C9_PerftEnPassant ==
    (stack = << >> /\ pos = en_passant_position) => nodes = <<14, 191, 2812>>

\* the walk from the en-passant position has ended
C9_Witness ==
    stack = << >> /\ pos = en_passant_position /\ nodes[2] > nodes[1]

\* C10: in the position with a white pawn on a7 and the kings on e1 and e8, the
\* moves of generate_moves from a7 are exactly the four promotions to a8, in the
\* order PromoN, PromoB, PromoR, PromoQ; and after each is made and taken back the
\* white pawn is on a7, a8 is empty and there is no white knight, bishop, rook or queen.
C10_Promotion ==
    /\ pos = promotion_position =>
          SelectSeq(generate_moves(pos), LAMBDA m : m.source = 8)
            = << encode(8, 0, "WP", NoPiece, "PromoN"), encode(8, 0, "WP", NoPiece, "PromoB"),
                 encode(8, 0, "WP", NoPiece, "PromoR"), encode(8, 0, "WP", NoPiece, "PromoQ") >>
    /\ (last.op = "undo" /\ last.ok /\ last.flag \in PromoFlags
            /\ last.before = promotion_position) =>
          /\ pos.bbs["WP"] = {8}
          /\ 0 \notin pos.ao
          /\ \A x \in {"WN", "WB", "WR", "WQ"} : pos.bbs[x] = {}

\* the promotion to a knight was made and taken back
C10_Witness ==
    /\ last.op = "undo"
    /\ last.ok
    /\ last.flag = "PromoN"
    /\ last.before = promotion_position

\* C11: in 4k3/8/8/8/8/8/4r3/R3K2R (White to move, rights KQ) generate_moves emits
\* no castling move, and it emits the plain moves of the rooks on a1 and h1: from a1
\* to every square of the a-file and to b1, c1, d1; from h1 to every square of the
\* h-file and to g1, f1.
C11_CastlingBlocked ==
    pos = castling_blocked_position =>
        \A move_list \in {generate_moves(pos)} :
            /\ \A i \in 1..Len(move_list) :
                  move_list[i].flag \notin {"WKCastle", "WQCastle"}
            /\ {move_list[i] : i \in {j \in 1..Len(move_list) : move_list[j].source = 56}}
                 = {encode(56, t, "WR", NoPiece, "None")
                      : t \in {48, 40, 32, 24, 16, 8, 0, 57, 58, 59}}
            /\ {move_list[i] : i \in {j \in 1..Len(move_list) : move_list[j].source = 63}}
                 = {encode(63, t, "WR", NoPiece, "None")
                      : t \in {55, 47, 39, 31, 23, 15, 7, 62, 61}}

\* the caller is back in the position after a move generated in it was made and undone
C11_Witness ==
    /\ pos = castling_blocked_position
    /\ last.op = "undo"
    /\ last.flag = "None"

\* C12: for every square s and every side A, is_square_attacked(s, opposite(A),
\* pieces of A) is true exactly when a pawn, knight, bishop, rook, queen or king of
\* A attacks s under capture geometry, slider rays being blocked by the occupancy.
C12_AttackGeometry ==
    \A s \in SquareSet :
        /\ is_square_attacked(pos, s, BLACK, WHITE_PIECES) <=> AttackedBy(pos, s, WHITE)
        /\ is_square_attacked(pos, s, WHITE, BLACK_PIECES) <=> AttackedBy(pos, s, BLACK)

\* after a move, some square is attacked by both sides
C12_Witness ==
    /\ last.op = "make"
    /\ \E s \in SquareSet :
          /\ is_square_attacked(pos, s, BLACK, WHITE_PIECES)
          /\ is_square_attacked(pos, s, WHITE, BLACK_PIECES)

occupancy_around(occupancy_index, num_bits, mask) ==
    generate_occupancy_permutation(occupancy_index, num_bits, mask)
        \cup (SquareSet \ mask)

Touched == {TopMove.source, TopMove.target}

\* C14: after make_move applies a move from source to target, each right is present
\* iff it was present before and neither square invalidates it: WK is cleared by e1 or
\* h1, WQ by e1 or a1, BK by e8 or h8, BQ by e8 or a8; a move touching none of a1, e1,
\* h1, a8, e8, h8 leaves the rights unchanged.
C14_CastlingRightsUpdate ==
    last.op = "make" =>
        /\ wk(pos.castling_rights)
              <=> (wk(last.before.castling_rights) /\ Touched \cap {60, 63} = {})
        /\ wq(pos.castling_rights)
              <=> (wq(last.before.castling_rights) /\ Touched \cap {60, 56} = {})
        /\ bk(pos.castling_rights)
              <=> (bk(last.before.castling_rights) /\ Touched \cap {4, 7} = {})
        /\ bq(pos.castling_rights)
              <=> (bq(last.before.castling_rights) /\ Touched \cap {4, 0} = {})
        /\ Touched \cap {56, 60, 63, 0, 4, 7} = {}
              => pos.castling_rights = last.before.castling_rights

\* a white pawn has captured the rook on a8: the target square alone clears BQ, and
\* the other three rights stay
C14_Witness ==
    /\ last.op = "make"
    /\ TopMove.piece = "WP"
    /\ TopMove.target = 0
    /\ last.before.castling_rights = CR_DEFAULT
    /\ ~bq(pos.castling_rights)
    /\ wk(pos.castling_rights) /\ wq(pos.castling_rights) /\ bk(pos.castling_rights)


\* the squares of the back rank of the side to move, by file letter
BackRank(p) ==
    IF p.side = WHITE
    THEN [b |-> 57, c |-> 58, d |-> 59, e |-> 60, f |-> 61, g |-> 62]
    ELSE [b |-> 1, c |-> 2, d |-> 3, e |-> 4, f |-> 5, g |-> 6]

\* the castling moves in a move list
CastlingMoves(move_list) ==
    {move_list[i] : i \in {j \in 1..Len(move_list) :
        move_list[j].flag \in {"WKCastle", "WQCastle", "BKCastle", "BQCastle"}}}

\* the king-side castling move of the side to move is due
KingSideDue(p) ==
    /\ IF p.side = WHITE THEN wk(p.castling_rights) ELSE bk(p.castling_rights)
    /\ {BackRank(p).f, BackRank(p).g} \cap p.ao = {}
    /\ \A s \in {BackRank(p).e, BackRank(p).f, BackRank(p).g} :
          ~AttackedBy(p, s, opposite(p.side))

\* the queen-side castling move of the side to move is due
QueenSideDue(p) ==
    /\ IF p.side = WHITE THEN wq(p.castling_rights) ELSE bq(p.castling_rights)
    /\ {BackRank(p).b, BackRank(p).c, BackRank(p).d} \cap p.ao = {}
    /\ \A s \in {BackRank(p).e, BackRank(p).d, BackRank(p).c} :
          ~AttackedBy(p, s, opposite(p.side))

\* C16: generate_moves emits the king-side castling move (king to the g-file, *KCastle)
\* iff the king-side right is present, f and g of the back rank are empty and none of
\* e, f, g is attacked by the enemy; the queen-side move (king to the c-file, *QCastle)
\* iff the queen-side right is present, b, c and d are empty and none of e, d, c is
\* attacked; an attack on the b-file square does not enter.
C16_CastlingGenerated ==
    \A move_list \in {generate_moves(pos)} :
        CastlingMoves(move_list) =
            (IF KingSideDue(pos)
             THEN {encode(BackRank(pos).e, BackRank(pos).g,
                          IF pos.side = WHITE THEN "WK" ELSE "BK", NoPiece,
                          IF pos.side = WHITE THEN "WKCastle" ELSE "BKCastle")}
             ELSE {})
            \cup
            (IF QueenSideDue(pos)
             THEN {encode(BackRank(pos).e, BackRank(pos).c,
                          IF pos.side = WHITE THEN "WK" ELSE "BK", NoPiece,
                          IF pos.side = WHITE THEN "WQCastle" ELSE "BQCastle")}
             ELSE {})

\* Black castles queen-side while the white bishop attacks b8 and nothing else of the path
C16_Witness ==
    /\ last.op = "make"
    /\ last.flag = "BQCastle"
    /\ last.ok
    /\ AttackedBy(last.before, 1, WHITE)
    /\ QueenSideDue(last.before)


\* the pawns of the side to move on their home rank
HomePawns(p) ==
    IF p.side = WHITE
    THEN {s \in p.bbs["WP"] : rank(s) = 2}
    ELSE {s \in p.bbs["BP"] : rank(s) = 7}

\* the square n steps ahead of a pawn of the side to move
Ahead(p, s, n) == IF p.side = WHITE THEN s - 8 * n ELSE s + 8 * n

\* the double pushes in a move list
DoublePushes(move_list) ==
    {move_list[i] : i \in {j \in 1..Len(move_list) :
        move_list[j].flag \in {"WDoublePawn", "BDoublePawn"}}}

\* C17: generate_moves emits a double pawn push (WDoublePawn / BDoublePawn) only from
\* a home-rank pawn whose single-push square and double-push square are both empty; a
\* home-rank pawn whose single-push square is occupied gets no double push even if its
\* double-push square is empty.
C17_DoublePushNeedsBothEmpty ==
    \A move_list \in {generate_moves(pos)} :
        /\ \A m \in DoublePushes(move_list) :
              /\ m.source \in HomePawns(pos)
              /\ m.target = Ahead(pos, m.source, 2)
              /\ m.flag = (IF pos.side = WHITE THEN "WDoublePawn" ELSE "BDoublePawn")
              /\ Ahead(pos, m.source, 1) \notin pos.ao
              /\ Ahead(pos, m.source, 2) \notin pos.ao
        /\ \A s \in HomePawns(pos) :
              Ahead(pos, s, 1) \in pos.ao
                  => \A m \in DoublePushes(move_list) : m.source # s

\* a home-rank pawn stands behind an occupied square with the square beyond it empty,
\* while another pawn of the side gets its double push
C17_Witness ==
    /\ \E s \in HomePawns(pos) :
          /\ Ahead(pos, s, 1) \in pos.ao
          /\ Ahead(pos, s, 2) \notin pos.ao
    /\ DoublePushes(generate_moves(pos)) # {}


\* the flags of the double pawn pushes
DoublePawnFlags == {"WDoublePawn", "BDoublePawn"}

\* after an accepted make_move the en-passant square is set iff the move was a double
\* push, and then it is the square the pawn passed over
EnPassantSquareSet ==
    (last.op = "make" /\ last.ok) =>
        /\ pos.en_passant_sq # NoSquare <=> last.flag \in DoublePawnFlags
        /\ last.flag = "WDoublePawn" =>
              /\ pos.en_passant_sq = TopMove.target + 8
              /\ pos.en_passant_sq = TopMove.source - 8
        /\ last.flag = "BDoublePawn" =>
              /\ pos.en_passant_sq = TopMove.target - 8
              /\ pos.en_passant_sq = TopMove.source + 8

\* an accepted make_move that is no double push, made while an en-passant square is
\* set, leaves none set
EnPassantSquareCleared ==
    (/\ last'.op = "make"
     /\ last'.ok
     /\ pos.en_passant_sq # NoSquare
     /\ last'.flag \notin DoublePawnFlags)
        => pos'.en_passant_sq = NoSquare

\* C18: after any make_move that returns true, en_passant_sq is not None iff the move
\* carried a *DoublePawn flag, and then it is the square the pawn passed over (target
\* + 8 for White, target - 8 for Black); an en-passant square set by one move is
\* cleared by the next successful move unless that move is a double push.
C18_EnPassantSquareLifetime ==
    /\ []EnPassantSquareSet
    /\ [][EnPassantSquareCleared]_vars

\* a double push set the en-passant square and the accepted plain move after it has
\* cleared it
C18_Witness ==
    /\ last.op = "make"
    /\ last.ok
    /\ last.flag = "None"
    /\ last.before.en_passant_sq # NoSquare
    /\ pos.en_passant_sq = NoSquare
    /\ Len(hist) = 2
    /\ hist[1].move.flag \in DoublePawnFlags


\* the squares a pawn of colour c on square s captures on
PawnCaptureSquares(c, s) ==
    IF c = WHITE
    THEN {t \in {s - 9, s - 7} : t \in SquareSet /\ Abs(DFile(s, t)) = 1}
    ELSE {t \in {s + 7, s + 9} : t \in SquareSet /\ Abs(DFile(s, t)) = 1}

\* the pawns of the side to move that may capture en passant
EnPassantCapturers(p) ==
    IF p.en_passant_sq = NoSquare
    THEN {}
    ELSE {s \in p.bbs[IF p.side = WHITE THEN "WP" ELSE "BP"] :
            /\ rank(s) = (IF p.side = WHITE THEN 5 ELSE 4)
            /\ p.en_passant_sq \in PawnCaptureSquares(p.side, s)}

\* the en-passant captures in a move list
EnPassantMoves(move_list) ==
    {move_list[i] : i \in {j \in 1..Len(move_list) :
        move_list[j].flag \in {"WEnPassant", "BEnPassant"}}}

\* generate_moves emits the en-passant captures of exactly the capturers, each to the
\* en-passant square with an encoded capture of None
EnPassantGenerated ==
    \A move_list \in {generate_moves(pos)} :
        EnPassantMoves(move_list) =
            {encode(s, pos.en_passant_sq, IF pos.side = WHITE THEN "WP" ELSE "BP", NoPiece,
                    IF pos.side = WHITE THEN "WEnPassant" ELSE "BEnPassant") :
                s \in EnPassantCapturers(pos)}

\* make_move of an en-passant capture puts the pawn on the en-passant square, removes
\* the enemy pawn one rank behind it and leaves every other bitboard as it was
EnPassantMade ==
    (last.op = "make" /\ last.flag \in {"WEnPassant", "BEnPassant"}) =>
        LET before == last.before
            pawn == IF last.flag = "WEnPassant" THEN "WP" ELSE "BP"
            enemy == IF last.flag = "WEnPassant" THEN "BP" ELSE "WP"
            behind == IF last.flag = "WEnPassant"
                      THEN TopMove.target + 8 ELSE TopMove.target - 8
        IN  /\ TopMove.target = before.en_passant_sq
            /\ TopMove.capture = NoPiece
            /\ behind \in before.bbs[enemy]
            /\ pos.bbs[pawn] = (before.bbs[pawn] \ {TopMove.source}) \cup {TopMove.target}
            /\ pos.bbs[enemy] = before.bbs[enemy] \ {behind}
            /\ \A x \in ALL_PIECES \ {pawn, enemy} : pos.bbs[x] = before.bbs[x]

\* C19: generate_moves emits a move with the *EnPassant flag for a pawn of the side to
\* move iff en_passant_sq is set, the pawn stands on its 5th rank (White) / 4th rank
\* (Black) and en_passant_sq is one of its two capture squares; making the move puts
\* the pawn on en_passant_sq and removes the enemy pawn one rank behind it (target + 8
\* for White, target - 8 for Black); the encoded captured piece is None.
C19_EnPassant == EnPassantGenerated /\ EnPassantMade

\* White has captured en passant and make_move has accepted it
C19_Witness ==
    /\ last.op = "make"
    /\ last.flag = "WEnPassant"
    /\ last.ok
    /\ pos.bbs["BP"] = {}
    /\ TopMove.target + 8 \in last.before.bbs["BP"]


\* the squares of a castling move: the king's, the rook's, and the pieces
CastleSquares(flag) ==
    CASE flag = "WKCastle" ->
            [king |-> "WK", rook |-> "WR", e |-> 60, to |-> 62, corner |-> 63, inside |-> 61]
      [] flag = "WQCastle" ->
            [king |-> "WK", rook |-> "WR", e |-> 60, to |-> 58, corner |-> 56, inside |-> 59]
      [] flag = "BKCastle" ->
            [king |-> "BK", rook |-> "BR", e |-> 4, to |-> 6, corner |-> 7, inside |-> 5]
      [] flag = "BQCastle" ->
            [king |-> "BK", rook |-> "BR", e |-> 4, to |-> 2, corner |-> 0, inside |-> 3]

\* C20: making a castling move changes only the mover's king and rook bitboards: the
\* king goes from the e-file to the g-file (king-side) or the c-file (queen-side), the
\* rook from h to f or from a to d on the same back rank; every other piece bitboard is
\* unchanged, both castling rights of the mover are cleared and the opponent's rights
\* are unchanged.
C20_CastlingFrame ==
    (last.op = "make" /\ last.flag \in {"WKCastle", "WQCastle", "BKCastle", "BQCastle"}) =>
        \A sq \in {CastleSquares(last.flag)} :
            LET before == last.before
                white == last.flag \in {"WKCastle", "WQCastle"}
            IN  /\ before.bbs[sq.king] = {sq.e}
                /\ pos.bbs[sq.king] = {sq.to}
                /\ sq.corner \in before.bbs[sq.rook]
                /\ pos.bbs[sq.rook] = (before.bbs[sq.rook] \ {sq.corner}) \cup {sq.inside}
                /\ \A x \in ALL_PIECES \ {sq.king, sq.rook} : pos.bbs[x] = before.bbs[x]
                /\ IF white
                   THEN /\ ~wk(pos.castling_rights) /\ ~wq(pos.castling_rights)
                        /\ bk(pos.castling_rights) = bk(before.castling_rights)
                        /\ bq(pos.castling_rights) = bq(before.castling_rights)
                   ELSE /\ ~bk(pos.castling_rights) /\ ~bq(pos.castling_rights)
                        /\ wk(pos.castling_rights) = wk(before.castling_rights)
                        /\ wq(pos.castling_rights) = wq(before.castling_rights)

\* White has castled king-side with all four rights present, and keeps a second rook
C20_Witness ==
    /\ last.op = "make"
    /\ last.flag = "WKCastle"
    /\ last.ok
    /\ last.before.castling_rights = CR_DEFAULT
    /\ pos.bbs["WR"] = {56, 61}
    /\ bk(pos.castling_rights) /\ bq(pos.castling_rights)


\* the pawns of the side to move on the rank they promote from
PromotingPawns(p) ==
    IF p.side = WHITE
    THEN {s \in p.bbs["WP"] : rank(s) = 7}
    ELSE {s \in p.bbs["BP"] : rank(s) = 2}

\* the piece of colour c on square s, if any
PieceOn(p, s, c) ==
    IF \E x \in ALL_PIECES : color(x) = c /\ s \in p.bbs[x]
    THEN CHOOSE x \in ALL_PIECES : color(x) = c /\ s \in p.bbs[x]
    ELSE NoPiece

\* the push and the captures of the pawn of the side to move on s, as pairs of target
\* square and captured piece
PawnSteps(p, s) ==
    {<<t, NoPiece>> : t \in {Ahead(p, s, 1)} \ p.ao}
        \cup {<<t, PieceOn(p, t, opposite(p.side))>> :
                t \in {u \in PawnCaptureSquares(p.side, s) :
                         PieceOn(p, u, opposite(p.side)) # NoPiece}}

\* the moves of a list that start on s, in the order of the list
MovesFrom(move_list, s) == SelectSeq(move_list, LAMBDA m : m.source = s)

\* every push and capture of a promoting pawn is emitted as four moves, PromoN, PromoB,
\* PromoR, PromoQ in that order, and the pawn has no other move
PromotionsGenerated ==
    \A move_list \in {generate_moves(pos)} :
        \A s \in PromotingPawns(pos) :
            \A from \in {MovesFrom(move_list, s)} :
                /\ Len(from) = 4 * Cardinality(PawnSteps(pos, s))
                /\ \A k \in 0..(Cardinality(PawnSteps(pos, s)) - 1) :
                      /\ <<from[4 * k + 1].target, from[4 * k + 1].capture>>
                             \in PawnSteps(pos, s)
                      /\ SubSeq(from, 4 * k + 1, 4 * k + 4)
                           = [i \in 1..4 |->
                                encode(s, from[4 * k + 1].target,
                                       IF pos.side = WHITE THEN "WP" ELSE "BP",
                                       from[4 * k + 1].capture,
                                       <<"PromoN", "PromoB", "PromoR", "PromoQ">>[i])]
                /\ {<<from[i].target, from[i].capture>> : i \in 1..Len(from)}
                      = PawnSteps(pos, s)

\* make_move of a promotion leaves on the target only the promoted piece of the mover,
\* takes the source from the mover's pawns and adds nothing to them, and removes a
\* captured piece from the target
PromotionMade ==
    (last.op = "make" /\ last.flag \in PromoFlags) =>
        LET before == last.before
            pawn == IF before.side = WHITE THEN "WP" ELSE "BP"
            piece == CASE last.flag = "PromoN" -> IF before.side = WHITE THEN "WN" ELSE "BN"
                       [] last.flag = "PromoB" -> IF before.side = WHITE THEN "WB" ELSE "BB"
                       [] last.flag = "PromoR" -> IF before.side = WHITE THEN "WR" ELSE "BR"
                       [] last.flag = "PromoQ" -> IF before.side = WHITE THEN "WQ" ELSE "BQ"
        IN  /\ \A x \in ALL_PIECES : TopMove.target \in pos.bbs[x] <=> x = piece
            /\ pos.bbs[pawn] = before.bbs[pawn] \ {TopMove.source}
            /\ pos.bbs[piece] = before.bbs[piece] \cup {TopMove.target}
            /\ \A x \in ALL_PIECES \ {pawn, piece} :
                  pos.bbs[x] = before.bbs[x] \ {TopMove.target}

\* C21: for a pawn of the side to move on its promotion source rank (7th for White, 2nd
\* for Black) every push and every capture is emitted as exactly four moves with flags
\* PromoN, PromoB, PromoR, PromoQ in that order and never as a plain move; after
\* make_move of such a move the target holds only the promoted piece of the mover's
\* colour, the mover's pawns have lost the source and gained nothing, and a captured
\* enemy piece is removed from the target.
C21_Promotions == PromotionsGenerated /\ PromotionMade

\* a black pawn has captured the rook on a1 and become a knight
C21_Witness ==
    /\ last.op = "make"
    /\ last.ok
    /\ last.flag = "PromoN"
    /\ TopMove.piece = "BP"
    /\ TopMove.capture = "WR"
    /\ 56 \in pos.bbs["BN"]


\* the king of colour c stands on a square the other colour attacks
KingAttacked(p, c) ==
    \E k \in p.bbs[IF c = WHITE THEN "WK" ELSE "BK"] : AttackedBy(p, k, opposite(c))

\* C22: BoardState::make_move(M, R), when the mover's king is attacked after applying
\* M, calls undo_move(M, R) and returns false; if R equals the castling rights held
\* before the call, then on return the 12 piece bitboards, the three occupancies, the
\* side to move and the castling rights equal their values before the call.
C22_LegacyMakeMoveRestores ==
    last.op = "make" =>
        /\ last.ok <=> ~KingAttacked(make_move(last.before, last.move).pos,
                                     last.before.side)
        /\ (~last.ok /\ last.rights = last.before.castling_rights) =>
              /\ pos.bbs = last.before.bbs
              /\ pos.wo = last.before.wo
              /\ pos.bo = last.before.bo
              /\ pos.ao = last.before.ao
              /\ pos.side = last.before.side
              /\ pos.castling_rights = last.before.castling_rights

\* a capture that leaves the mover's king attacked has come back false with rights on
\* the board that the move would have cleared
C22_Witness ==
    /\ last.op = "make"
    /\ ~last.ok
    /\ last.move.capture # NoPiece
    /\ last.rights = last.before.castling_rights
    /\ update(last.before.castling_rights, last.move.source, last.move.target)
          # last.before.castling_rights
    /\ pos.bbs = last.before.bbs


\* the squares of the ray from s that steps dr rows and df files at a time
Ray(s, dr, df) ==
    {t \in SquareSet : \E k \in 1..7 : /\ (t \div 8) = (s \div 8) + k * dr
                                        /\ (t % 8) = (s % 8) + k * df}

\* the squares of a ray without its last one, where it meets the edge of the board
RayInner(s, dr, df) == {t \in Ray(s, dr, df) : Ray(t, dr, df) # {}}

\* the squares on the rim of the board
EdgeSquares == {t \in SquareSet : t % 8 \in {0, 7} \/ t \div 8 \in {0, 7}}

DiagonalSteps == {<<-1, -1>>, <<-1, 1>>, <<1, -1>>, <<1, 1>>}

StraightSteps == {<<-1, 0>>, <<1, 0>>, <<0, -1>>, <<0, 1>>}

\* init_masks has filled the masks of the square
MasksFilled == pc # "init" \/ calls > 0

\* the masks have as many squares as the hard-coded counts say, and no debug
\* assertion of init_masks has fired
RelevantBitsAgree ==
    /\ pc # "panicked"
    /\ MasksFilled =>
          /\ count_bits(tables.bishop_masks) = BISHOP_RELEVANT_BITS[tables.square + 1]
          /\ count_bits(tables.rook_masks) = ROOK_RELEVANT_BITS[tables.square + 1]

WalksStop(walks) == \A w \in walks : w.steps <= 7 /\ ~w.lost

\* blocker subset number occupancy_index of the mask, alone and with every square
\* outside the mask but the slider's own occupied as well
BlockerSets(square, occupancy_index, num_bits, mask) ==
    { generate_occupancy_permutation(occupancy_index, num_bits, mask),
      generate_occupancy_permutation(occupancy_index, num_bits, mask)
          \cup (SquareSet \ (mask \cup {square})) }

RightsAtHome(p) ==
    /\ wk(p.castling_rights) => (60 \in p.bbs["WK"] /\ 63 \in p.bbs["WR"])
    /\ wq(p.castling_rights) => (60 \in p.bbs["WK"] /\ 56 \in p.bbs["WR"])
    /\ bk(p.castling_rights) => (4 \in p.bbs["BK"] /\ 7 \in p.bbs["BR"])
    /\ bq(p.castling_rights) => (4 \in p.bbs["BK"] /\ 0 \in p.bbs["BR"])

\* C26: in every position reached by successful make_move calls from the starting
\* position, and from every other position the caller starts from in which the rights
\* have their pieces at home, a present castling right implies its pieces are at home:
\* WK the white king on e1 and a white rook on h1, WQ the king on e1 and a rook on a1,
\* BK the black king on e8 and a rook on h8, BQ the king on e8 and a rook on a8.
C26_RightsImplyHome ==
    (AllAccepted /\ RightsAtHome(Root)) => RightsAtHome(pos)

\* a rook has left its corner and taken its right along, the other rights staying
C26_Witness ==
    /\ last.op = "make"
    /\ last.ok
    /\ TopMove.piece = "WR"
    /\ TopMove.source = 63
    /\ last.before.castling_rights = CR_DEFAULT
    /\ ~wk(pos.castling_rights)
    /\ wq(pos.castling_rights)
    /\ RightsAtHome(pos)


\* the rights of a are among the rights of b
RightsWithin(a, b) == \A i \in 0..3 : bit(a, i) <= bit(b, i)

\* a call of make_move leaves no right that was not there before it
RightsShrink ==
    last'.op = "make" => RightsWithin(pos'.castling_rights, pos.castling_rights)

\* C27: castling rights never grow along forward play: for every sequence of make_move
\* calls without undo_move, the set of rights after each call is a subset of the set
\* before it, so a right once lost is never regained.
C27_RightsNeverGrow ==
    /\ [][RightsShrink]_vars
    /\ [](\A i \in 1..Len(hist) : \A j \in i..Len(hist) :
             /\ RightsWithin(hist[j].rights, hist[i].rights)
             /\ RightsWithin(pos.castling_rights, hist[j].rights))

\* two moves in a row have each lost rights: first White's, then Black's
C27_Witness ==
    /\ last.op = "make"
    /\ Len(hist) = 2
    /\ hist[1].rights = CR_DEFAULT
    /\ hist[2].rights = 12
    /\ pos.castling_rights = CR_NONE


\* the move meets what make_move asserts on entry in position p
MeetsPreconditions(p, m) ==
    /\ m.piece \in ALL_PIECES
    /\ color(m.piece) = p.side
    /\ m.source \in p.bbs[m.piece]
    /\ IF m.capture = NoPiece
       THEN \/ PieceOn(p, m.target, opposite(p.side)) = NoPiece
            \/ m.flag \in {"WEnPassant", "BEnPassant"}
       ELSE /\ m.capture \in ALL_PIECES
            /\ color(m.capture) = opposite(p.side)
            /\ m.target \in p.bbs[m.capture]

\* C28: every move generate_moves emits in a reachable position satisfies the
\* preconditions asserted at the top of make_move: the moving piece has the colour of
\* the side to move and is set on the source square, and the encoded captured piece is
\* either None (the target holds no enemy piece, or the move is an en-passant capture)
\* or the enemy piece that is set on the target square.
C28_GeneratedMovesMeetPreconditions ==
    pc = "ready" =>
        \A move_list \in {generate_moves(pos)} :
            \A i \in 1..Len(move_list) : MeetsPreconditions(pos, move_list[i])

\* the move list of the position holds a capture and an en-passant capture
C28_Witness ==
    /\ pc = "ready"
    /\ \E move_list \in {generate_moves(pos)} :
          /\ \E i \in 1..Len(move_list) : move_list[i].capture # NoPiece
          /\ \E i \in 1..Len(move_list) : move_list[i].flag = "BEnPassant"


\* the square beyond the en-passant square of p, where the pawn that passed it stands
BeyondEnPassant(p) ==
    IF p.side = WHITE THEN p.en_passant_sq + 8 ELSE p.en_passant_sq - 8

\* C29: in every position reached by successful make_move calls from the starting
\* position (and from the other positions the caller starts from), if en_passant_sq
\* is set then that square is empty and a pawn of the side that just moved stands on
\* the adjacent square beyond it on the same file, so every generated en-passant move
\* removes an existing enemy pawn in make_move.
C29_EnPassantSquareSound ==
    (AllAccepted /\ pos.en_passant_sq # NoSquare) =>
        /\ pos.en_passant_sq \notin pos.ao
        /\ BeyondEnPassant(pos) \in pos.bbs[IF pos.side = WHITE THEN "BP" ELSE "WP"]
        /\ \A m \in EnPassantMoves(generate_moves(pos)) :
              /\ m.target = pos.en_passant_sq
              /\ (IF m.flag = "WEnPassant" THEN m.target + 8 ELSE m.target - 8)
                    \in pos.bbs[IF m.flag = "WEnPassant" THEN "BP" ELSE "WP"]

\* after 1. e4 e5 from the starting position the en-passant square is e6, empty, with
\* the black pawn on e5 beyond it
C29_Witness ==
    /\ Root = starting_position
    /\ AllAccepted
    /\ last.op = "make"
    /\ pos.en_passant_sq = 20
    /\ 28 \in pos.bbs["BP"]
    /\ 20 \notin pos.ao


\* C30: indexing the two-entry per-colour pawn tables (PAWN_QUIET_MASKS and
\* PAWN_CAPTURE_MASKS, outer length 2) with Color::WHITE or Color::BLACK always yields
\* an index within bounds, both when init_masks writes them and when the mask getters
\* read them.
C30_ColorIndexInBounds ==
    /\ pc # "panicked"
    /\ last.index < PAWN_MASKS_LEN

=============================================================================
